---------------------------- MODULE Spec2Model ----------------------------
(***************************************************************************)
(* Habit scheduling, streak and adherence computations of the habit        *)
(* tracker (lauamat/habitos), modelled from the TypeScript sources.        *)
(*                                                                         *)
(* Time.  A JavaScript Date is an instant; the model counts instants in    *)
(* ticks of local time, TicksPerDay ticks to the calendar day, so that an  *)
(* instant t lies on calendar day  t \div TicksPerDay  at time of day      *)
(* t % TicksPerDay.  Day 0 is a Monday.  A 'yyyy-MM-dd' string is          *)
(* modelled by the day number it denotes.                                  *)
(***************************************************************************)
EXTENDS Integers, Sequences, FiniteSets, TLC

VARIABLES
    habits,       \* Habit[]            : the habit list held in memory
    completions,  \* HabitCompletion[]  : the completion list held in memory
    now,          \* the instant  new Date()  returns
    query,        \* the last due check evaluated: which copy, for which Date
    answer,       \* ... and the boolean it returned
    site,         \* which streak computation is running
    walk,         \* the local variables of that computation's loop
    view,         \* the analytics component last rendered: its settings and what it computed
    db,           \* the backend: the rows of the tables habits and habit_completions
    calls,        \* the runs of App's async handlers that have not finished
    app,          \* App's loading flag and error message
    gate          \* HabitsGate: its state, the session, and its runs of load()

vars == <<habits, completions, now, query, answer, site, walk, view, db, calls, app, gate>>

\* The variables of App's backend traffic and of the gate
remote == <<db, calls, app, gate>>

-----------------------------------------------------------------------------
(* Bounds of the model *)

TicksPerDay == 2       \* resolution of the time of day
MaxDay == 6            \* the latest calendar day of the model
MaxCustomDays == 2     \* weekday names a custom habit may select from
MaxWalk == 366         \* days a streak walk is followed before the model stops following it
LongRun == 367         \* length of the long run of consecutive completions
RecentSpan == 4        \* the recent days on which completions are placed freely
AggSpan == 2           \* ... and for the aggregates
RangeSpan == 2         \* the days a custom range or a week's bounds are taken from

-----------------------------------------------------------------------------
(* Dates (date-fns) *)

Weekdays == <<"monday", "tuesday", "wednesday", "thursday", "friday", "saturday", "sunday">>

Ticks == 0 .. (TicksPerDay - 1)

\* format(date, 'yyyy-MM-dd'): the calendar day of an instant
formatDay(date) == date \div TicksPerDay

\* format(date, 'EEEE').toLowerCase(): the weekday name of an instant
formatDayName(date) == Weekdays[(formatDay(date) % 7) + 1]

\* subDays(date, n), addDays(date, n): same time of day, n days away
subDays(date, n) == date - n * TicksPerDay
addDays(date, n) == date + n * TicksPerDay

\* The instant of calendar day d at time of day k
At(d, k) == d * TicksPerDay + k

\* JavaScript's  a % b  (the sign follows the dividend), b > 0
JsRem(a, b) == IF a >= 0 THEN a % b ELSE 0 - ((0 - a) % b)

\* Math.floor((date.getTime() - createdDate.getTime()) / (1000 * 60 * 60 * 24))
daysSince(date, createdDate) == (date - createdDate) \div TicksPerDay

-----------------------------------------------------------------------------
(* Data model (lib/supabase) *)

\* custom_days: string[] | null  -- null is <<>>, an array is <<set of its members>>
NULL == <<>>

\* A habit without custom_days taken to be due every day
customDaysIncludes_NullIsEveryDay(custom_days, dayName) ==
    IF custom_days = NULL THEN TRUE ELSE dayName \in custom_days[1]

\* habit.custom_days?.includes(dayName) || false
customDaysIncludes(custom_days, dayName) ==
    IF custom_days = NULL THEN FALSE ELSE dayName \in custom_days[1]

Habit(id, frequency_type, custom_days, created_at, is_active) ==
    [id |-> id, frequency_type |-> frequency_type, custom_days |-> custom_days,
     created_at |-> created_at, is_active |-> is_active]

HabitCompletion(habit_id, completion_date) ==
    [habit_id |-> habit_id, completion_date |-> completion_date]

-----------------------------------------------------------------------------
(* Schedule evaluator: the copies of the due check *)

\* A due check for which a daily habit starts at its creation
shouldShowHabitOnDate_DailyFromCreation(habit, date) ==
    habit.frequency_type = "daily" /\ date >= habit.created_at

\* EnhancedAnalyticsDashboard.tsx
shouldShowHabitOnDate(habit, date) ==
    LET dayName == formatDayName(date) IN
    CASE habit.frequency_type = "daily" -> TRUE
      [] habit.frequency_type = "alternate" ->
            LET createdDate == habit.created_at
                daysSinceCreation == daysSince(date, createdDate)
            IN  daysSinceCreation >= 0 /\ JsRem(daysSinceCreation, 2) = 0
      [] habit.frequency_type = "custom" -> customDaysIncludes(habit.custom_days, dayName)
      [] OTHER -> FALSE

\* MostAbandonedHabits.tsx
abandonedShouldShowHabitOnDate(habit, date) ==
    LET dayName == formatDayName(date) IN
    CASE habit.frequency_type = "daily" -> TRUE
      [] habit.frequency_type = "alternate" ->
            LET createdDate == habit.created_at
                daysSinceCreation == daysSince(date, createdDate)
            IN  daysSinceCreation >= 0 /\ JsRem(daysSinceCreation, 2) = 0
      [] habit.frequency_type = "custom" -> customDaysIncludes(habit.custom_days, dayName)
      [] OTHER -> FALSE

\* WeeklyCalendar.tsx
weeklyShouldShowHabitOnDate(habit, date) ==
    LET dayName == formatDayName(date) IN
    CASE habit.frequency_type = "daily" -> TRUE
      [] habit.frequency_type = "alternate" ->
            LET createdDate == habit.created_at
                daysSinceCreation == daysSince(date, createdDate)
            IN  daysSinceCreation >= 0 /\ JsRem(daysSinceCreation, 2) = 0
      [] habit.frequency_type = "custom" -> customDaysIncludes(habit.custom_days, dayName)
      [] OTHER -> FALSE

\* SharedHabitsPage
sharedShouldHaveHabitOnDate(date, habit) ==
    LET dayName == formatDayName(date) IN
    CASE habit.frequency_type = "daily" -> TRUE
      [] habit.frequency_type = "alternate" ->
            LET createdDate == habit.created_at
                daysSinceCreation == daysSince(date, createdDate)
            IN  daysSinceCreation >= 0 /\ JsRem(daysSinceCreation, 2) = 0
      [] habit.frequency_type = "custom" -> customDaysIncludes(habit.custom_days, dayName)
      [] OTHER -> FALSE

\* HabitCard.tsx: no test that the offset is non-negative
shouldHaveHabitOnDate(date, habit) ==
    LET dayName == formatDayName(date) IN
    CASE habit.frequency_type = "daily" -> TRUE
      [] habit.frequency_type = "alternate" ->
            LET createdDate == habit.created_at
                daysSinceCreation == daysSince(date, createdDate)
            IN  JsRem(daysSinceCreation, 2) = 0
      [] habit.frequency_type = "custom" -> customDaysIncludes(habit.custom_days, dayName)
      [] OTHER -> FALSE

\* HabitCard.tsx: the due check for  new Date()
shouldShowForToday(habit, today) ==
    LET dayName == formatDayName(today) IN
    CASE habit.frequency_type = "daily" -> TRUE
      [] habit.frequency_type = "alternate" ->
            LET createdDate == habit.created_at
                daysSinceCreation == daysSince(today, createdDate)
            IN  JsRem(daysSinceCreation, 2) = 0
      [] habit.frequency_type = "custom" -> customDaysIncludes(habit.custom_days, dayName)
      [] OTHER -> FALSE

\* MonthlyCalendar.tsx
monthlyShouldShowHabitOnDate(habit, date) ==
    LET dayName == formatDayName(date)
    IN  CASE habit.frequency_type = "daily" -> TRUE
          [] habit.frequency_type = "alternate" ->
                LET createdDate == habit.created_at
                    daysSinceCreation == daysSince(date, createdDate)
                IN  daysSinceCreation >= 0 /\ JsRem(daysSinceCreation, 2) = 0
          [] habit.frequency_type = "custom" -> customDaysIncludes(habit.custom_days, dayName)
          [] OTHER -> FALSE

\* App.tsx (createdDate is new Date(habit.created_at))
appShouldShowHabitOnDate(habit, date) ==
    LET dayName == formatDayName(date)
    IN  CASE habit.frequency_type = "daily" -> TRUE
          [] habit.frequency_type = "alternate" ->
                LET createdDate == habit.created_at
                    daysSinceCreation == daysSince(date, createdDate)
                IN  daysSinceCreation >= 0 /\ JsRem(daysSinceCreation, 2) = 0
          [] habit.frequency_type = "custom" -> customDaysIncludes(habit.custom_days, dayName)
          [] OTHER -> FALSE

-----------------------------------------------------------------------------
(* Inputs *)

HabitIds == {"h1", "h2"}

\* The weekday names of the latest MaxCustomDays days of the model
CustomDayNames == {formatDayName(At(MaxDay - i, 0)) : i \in 0 .. (MaxCustomDays - 1)}

CustomDaysInputs == {NULL} \cup {<<S>> : S \in SUBSET CustomDayNames}

\* created_at: on day 0 or three days before the latest day, at any time of day
CreatedInputs == {At(d, k) : d \in {0, MaxDay - 3}, k \in Ticks}

NowInputs == {At(d, k) : d \in (MaxDay - 1) .. MaxDay, k \in Ticks}

HabitInputs(id, is_active) ==
    {Habit(id, "daily", NULL, At(0, 0), is_active)}
    \cup {Habit(id, "alternate", NULL, c, is_active) : c \in CreatedInputs}
    \cup {Habit(id, "custom", cd, At(0, 0), is_active) : cd \in CustomDaysInputs}

-----------------------------------------------------------------------------
(* The due checks, applied *)

DueSites == {"dashboard", "abandoned", "weekly", "shared", "card", "cardToday", "monthly", "app"}

\* The Dates a due check is asked about: any time of any day around the habit's creation
QueryDates == {At(d, k) : d \in (0 - 3) .. MaxDay, k \in Ticks}

NoQuery == [site |-> "none", date |-> 0]

NoView == [component |-> "none"]

\* Empty tables
NoDb == [habits |-> {}, completions |-> <<>>]

\* HabitForm, EditHabitModal: useState('daily') for frequency, useState([]) for
\* customDays, useState(false) for loading, useState('') for error
NoForm == [frequency |-> "daily", customDays |-> {}, loading |-> FALSE, error |-> ""]

\* App: useState(true) for loading, useState('') for error, useState(false) for
\* showHabitForm; the form with its initial state; the habit the modal edits
\* (<<>> is null) and the modal's state
NoApp == [loading |-> TRUE, error |-> "", showHabitForm |-> FALSE, form |-> NoForm,
          editingHabit |-> <<>>, modal |-> NoForm]

\* HabitsGate before it mounts: useState<State>('boot'), useState('') for msg; no
\* session, no run of load().  outcome and checked are not state of the code:
\* the state the most recently started run of load() ended in ("pending" until
\* then), and what the most recent session check found.
NoGate == [state |-> "boot", msg |-> "", session |-> FALSE, runs |-> <<>>,
           outcome |-> "none", checked |-> "none"]

\* No backend traffic and no gate: the state of what is outside a computation
Offline == db = NoDb /\ calls = <<>> /\ app = NoApp /\ gate = NoGate

IdleWalk == [pc |-> "idle", checkDate |-> 0, streak |-> 0, habitCompletions |-> <<>>]

InitDue ==
    /\ habits \in {<<h>> : h \in HabitInputs("h1", TRUE)}
    /\ completions = <<>>
    /\ now \in NowInputs
    /\ query = NoQuery
    /\ answer = FALSE
    /\ site = "none"
    /\ walk = IdleWalk
    /\ view = NoView
    /\ Offline

Ask(s, date, result) ==
    /\ query' = [site |-> s, date |-> date]
    /\ answer' = result
    /\ UNCHANGED <<habits, completions, now, site, walk, view, remote>>

\* The dashboard, the shared page and the habit card ask about  new Date()  and the
\* days before it; the calendars and the custom range of the abandoned-habits card
\* also about later days.
PastDates == {date \in QueryDates : date <= now}

DashboardDue == \E date \in PastDates : Ask("dashboard", date, shouldShowHabitOnDate(habits[1], date))
AbandonedDue == \E date \in QueryDates : Ask("abandoned", date, abandonedShouldShowHabitOnDate(habits[1], date))
WeeklyDue    == \E date \in QueryDates : Ask("weekly", date, weeklyShouldShowHabitOnDate(habits[1], date))
SharedDue    == \E date \in PastDates : Ask("shared", date, sharedShouldHaveHabitOnDate(date, habits[1]))
CardDue      == \E date \in PastDates : Ask("card", date, shouldHaveHabitOnDate(date, habits[1]))
CardTodayDue == Ask("cardToday", now, shouldShowForToday(habits[1], now))

\* The days of the month grid, each at its start
CalendarDays == {At(d, 0) : d \in (0 - 3) .. MaxDay}

MonthlyDue == \E date \in CalendarDays : Ask("monthly", date, monthlyShouldShowHabitOnDate(habits[1], date))

\* getTodayStats of App.tsx asks about new Date()
AppDue == Ask("app", now, appShouldShowHabitOnDate(habits[1], now))

NextDue ==
    \/ DashboardDue \/ AbandonedDue \/ WeeklyDue \/ SharedDue \/ CardDue \/ CardTodayDue
    \/ MonthlyDue \/ AppDue

SpecDue == InitDue /\ [][NextDue]_vars

-----------------------------------------------------------------------------
(* Streak calculator: the loops, one iteration at a time *)

DashboardStreakCap == 365
SharedStreakCap == 100
CardStreakCap == 100

\* completions.filter(c => c.habit_id === habit.id); sorting it changes no membership
habitCompletionsOf(habit, cs) == SelectSeq(cs, LAMBDA c : c.habit_id = habit.id)

\* cs.some(c => c.completion_date === dateStr)
someOn(cs, dateStr) == \E i \in 1 .. Len(cs) : cs[i].completion_date = dateStr

\* The loop's variables after an iteration that did not break
Continue(w, checkDate, streak, cap) ==
    [w EXCEPT !.pc = IF streak > cap THEN "done" ELSE "loop",
              !.checkDate = checkDate, !.streak = streak]

\* EnhancedAnalyticsDashboard.tsx calculateCurrentStreak: up to the loop
calculateCurrentStreakEnter(habit, cs, today) ==
    LET habitCompletions == habitCompletionsOf(habit, cs) IN
    [pc |-> IF Len(habitCompletions) = 0 THEN "done" ELSE "loop",
     checkDate |-> today, streak |-> 0, habitCompletions |-> habitCompletions]

\* Mutant: the iteration counts a completed date whether or not the habit is due on it
calculateCurrentStreakIter_CountsAnyCompletion(habit, w) ==
    LET dateStr == formatDay(w.checkDate)
        hasCompletion == someOn(w.habitCompletions, dateStr)
        shouldHaveHabit == shouldShowHabitOnDate(habit, w.checkDate)
    IN  IF shouldHaveHabit /\ ~hasCompletion
        THEN [w EXCEPT !.pc = "done"]
        ELSE Continue(w, subDays(w.checkDate, 1),
                      IF hasCompletion THEN w.streak + 1 ELSE w.streak,
                      DashboardStreakCap)

\* EnhancedAnalyticsDashboard.tsx calculateCurrentStreak: one iteration of while (true)
calculateCurrentStreakIter(habit, w) ==
    LET dateStr == formatDay(w.checkDate)
        hasCompletion == someOn(w.habitCompletions, dateStr)
        shouldHaveHabit == shouldShowHabitOnDate(habit, w.checkDate)
    IN  IF shouldHaveHabit /\ ~hasCompletion
        THEN [w EXCEPT !.pc = "done"]
        ELSE Continue(w, subDays(w.checkDate, 1),
                      IF shouldHaveHabit THEN w.streak + 1 ELSE w.streak,
                      DashboardStreakCap)

\* SharedHabitsPage calculateCurrentStreak: up to the loop
sharedCalculateCurrentStreakEnter(habit, cs, today) ==
    LET habitCompletions == habitCompletionsOf(habit, cs) IN
    [pc |-> IF Len(habitCompletions) = 0 THEN "done" ELSE "loop",
     checkDate |-> today, streak |-> 0, habitCompletions |-> habitCompletions]

\* SharedHabitsPage calculateCurrentStreak: one iteration of while (true)
sharedCalculateCurrentStreakIter(habit, w) ==
    LET dateStr == formatDay(w.checkDate)
        hasCompletion == someOn(w.habitCompletions, dateStr)
        shouldHaveHabit == sharedShouldHaveHabitOnDate(w.checkDate, habit)
    IN  IF shouldHaveHabit /\ ~hasCompletion
        THEN [w EXCEPT !.pc = "done"]
        ELSE Continue(w, subDays(w.checkDate, 1),
                      IF shouldHaveHabit THEN w.streak + 1 ELSE w.streak,
                      SharedStreakCap)

\* HabitCard.tsx calculateStreak: up to the loop.  cs is the completions prop: the
\* habit's own completions, filtered by the caller (App.tsx); the walk keeps it as
\* habitCompletions, and the loop's currentDate as checkDate
calculateStreakEnter(cs, habit, today) ==
    [pc |-> IF Len(cs) = 0 THEN "done" ELSE "loop",
     checkDate |-> today, streak |-> 0, habitCompletions |-> cs]

\* HabitCard.tsx calculateStreak: one iteration of while (true)
calculateStreakIter(habit, w) ==
    LET dateStr == formatDay(w.checkDate)
        hasCompletion == someOn(w.habitCompletions, dateStr)
    IN  IF ~hasCompletion /\ shouldHaveHabitOnDate(w.checkDate, habit)
        THEN [w EXCEPT !.pc = "done"]
        ELSE Continue(w, subDays(w.checkDate, 1),
                      IF hasCompletion THEN w.streak + 1 ELSE w.streak,
                      CardStreakCap)

-----------------------------------------------------------------------------
(* The streak computations, applied *)

RECURSIVE CompletionsOn(_, _)
\* A completion of habit id on each day of S, latest first (the loads order by
\* completion_date descending)
CompletionsOn(id, S) ==
    IF S = {} THEN <<>>
    ELSE LET m == CHOOSE x \in S : \A y \in S : y <= x
         IN  <<HabitCompletion(id, m)>> \o CompletionsOn(id, S \ {m})

\* A completion of habit id on each of the n consecutive days ending on day last,
\* latest first
CompletionsRun(id, last, n) == [i \in 1 .. n |-> HabitCompletion(id, last - i + 1)]

\* The completion lists: any set of the last RecentSpan days of the model, every
\* other day from day 0 on (but not the latest day), or LongRun consecutive days
\* ending on the latest day
CompletionsInputs(id) ==
    {CompletionsOn(id, S) : S \in SUBSET ((MaxDay - RecentSpan + 1) .. MaxDay)}
    \cup {CompletionsOn(id, {d \in 0 .. (MaxDay - 1) : d % 2 = 0})}
    \cup {CompletionsRun(id, MaxDay, LongRun)}

InitStreak ==
    /\ habits \in {<<h>> : h \in HabitInputs("h1", TRUE)}
    /\ completions \in CompletionsInputs("h1")
    /\ now \in NowInputs
    /\ query = NoQuery
    /\ answer = FALSE
    /\ site = "none"
    /\ walk = IdleWalk
    /\ view = NoView
    /\ Offline

DaysWalked == formatDay(now) - formatDay(walk.checkDate)

Enter(s, w) ==
    /\ site = "none"
    /\ site' = s
    /\ walk' = w
    /\ UNCHANGED <<habits, completions, now, query, answer, view, remote>>

Iterate(s, w) ==
    /\ site = s
    /\ walk.pc = "loop"
    /\ DaysWalked < MaxWalk
    /\ walk' = w
    /\ UNCHANGED <<habits, completions, now, query, answer, site, view, remote>>

DashboardStreakEnter == Enter("dashboard", calculateCurrentStreakEnter(habits[1], completions, now))
DashboardStreakIter  == Iterate("dashboard", calculateCurrentStreakIter(habits[1], walk))
SharedStreakEnter    == Enter("shared", sharedCalculateCurrentStreakEnter(habits[1], completions, now))
SharedStreakIter     == Iterate("shared", sharedCalculateCurrentStreakIter(habits[1], walk))
CardStreakEnter      == Enter("card", calculateStreakEnter(habitCompletionsOf(habits[1], completions), habits[1], now))
CardStreakIter       == Iterate("card", calculateStreakIter(habits[1], walk))

NextStreak ==
    \/ DashboardStreakEnter \/ DashboardStreakIter
    \/ SharedStreakEnter \/ SharedStreakIter
    \/ CardStreakEnter \/ CardStreakIter

SpecStreak == InitStreak /\ [][NextStreak]_vars

-----------------------------------------------------------------------------
(* JavaScript numbers that come from a division: num / den in lowest terms.     *)
(* 0 / 0 is NaN and n / 0 is Infinity; equal quotients are equal records, as    *)
(* equal quotients are equal doubles.                                           *)

Max(a, b) == IF a >= b THEN a ELSE b

Min(a, b) == IF a <= b THEN a ELSE b

RECURSIVE GCD(_, _)
GCD(a, b) == IF b = 0 THEN a ELSE GCD(b, a % b)

Number(n) == [num |-> n, den |-> 1]

NaN == [num |-> 0, den |-> 0]

Infinity == [num |-> 1, den |-> 0]

\* n / d, for n >= 0 and d >= 0
Quotient(n, d) ==
    IF d = 0 THEN (IF n = 0 THEN NaN ELSE Infinity)
    ELSE LET g == GCD(n, d) IN [num |-> n \div g, den |-> d \div g]

\* x >= y in the place of x > y
Greater_OrEqual(x, y) == x.num * y.den >= y.num * x.den

\* x > y, for finite x and y
Greater(x, y) == x.num * y.den > y.num * x.den

\* Array.prototype.sort(compare), which is stable: Before(a, b) is compare(a, b) < 0
StableSort(seq, Before(_, _)) ==
    LET n == Len(seq)
        rank(i) == Cardinality({j \in 1 .. n :
                        Before(seq[j], seq[i]) \/ (~Before(seq[i], seq[j]) /\ j < i)})
    IN  [k \in 1 .. n |-> seq[CHOOSE i \in 1 .. n : rank(i) = k - 1]]

\* cs.some(c => c.habit_id === habit.id && c.completion_date === dateStr)
someOf(cs, habit, dateStr) ==
    \E i \in 1 .. Len(cs) : cs[i].habit_id = habit.id /\ cs[i].completion_date = dateStr

\* habits.filter(h => h.is_active)
activeHabitsOf(hs) == SelectSeq(hs, LAMBDA h : h.is_active)

\* The variables of a counting loop.  at is the loop variable (a date, or the
\* index i); visited is not a variable of the code: it lists the calendar dates
\* the loop went through, in order.
Counting(at) == [at |-> at, completed |-> 0, planned |-> 0, visited |-> <<>>]

\* What a counting loop returns
Counts(st) == [completed |-> st.completed, planned |-> st.planned, visited |-> st.visited]

\* A bound on the iterations of a loop that goes from start to end a day at a time
Fuel(start, end) == Max(0, formatDay(end) - formatDay(start)) + 2

-----------------------------------------------------------------------------
(* Window aggregator of the dashboard: EnhancedAnalyticsDashboard.tsx *)

RECURSIVE forEachHabitOn(_, _, _, _, _)
\* getCompletionStats: habits.forEach(habit => ...) for one date, from habit k on
forEachHabitOn(hs, cs, date, k, acc) ==
    IF k > Len(hs) THEN acc
    ELSE LET habit == hs[k]
             dateStr == formatDay(date)
             hasCompletion == someOf(cs, habit, dateStr)
         IN  forEachHabitOn(hs, cs, date, k + 1,
                IF shouldShowHabitOnDate(habit, date)
                THEN [acc EXCEPT !.planned = @ + 1,
                                 !.completed = IF hasCompletion THEN @ + 1 ELSE @]
                ELSE acc)

\* getCompletionStats: the body of for (let i = 0; i < days; i++)
getCompletionStatsBody(hs, cs, endDate, st) ==
    LET date == subDays(endDate, st.at)
        counted == forEachHabitOn(hs, cs, date, 1, st)
    IN  [counted EXCEPT !.at = @ + 1, !.visited = Append(@, formatDay(date))]

RECURSIVE getCompletionStatsLoop(_, _, _, _, _, _)
\* getCompletionStats: the loop from state st, for n iterations or until i < days
\* fails (the iterations are split in halves to keep the evaluation shallow)
getCompletionStatsLoop(hs, cs, days, endDate, st, n) ==
    IF n = 0 \/ ~(st.at < days) THEN st
    ELSE IF n = 1 THEN getCompletionStatsBody(hs, cs, endDate, st)
    ELSE getCompletionStatsLoop(hs, cs, days, endDate,
            getCompletionStatsLoop(hs, cs, days, endDate, st, n \div 2), n - (n \div 2))

\* getCompletionStats(habits, completions, days), with endDate = new Date()
getCompletionStats(hs, cs, days, endDate) ==
    Counts(getCompletionStatsLoop(hs, cs, days, endDate, Counting(0), days + 1))

RECURSIVE calculateCurrentStreakRun(_, _, _)
\* calculateCurrentStreak: n iterations of the loop from walk w, or as many as
\* it makes before it returns
calculateCurrentStreakRun(habit, w, n) ==
    IF n = 0 \/ w.pc = "done" THEN w
    ELSE IF n = 1 THEN calculateCurrentStreakIter(habit, w)
    ELSE calculateCurrentStreakRun(habit, calculateCurrentStreakRun(habit, w, n \div 2),
                                   n - (n \div 2))

\* calculateCurrentStreak(habit, completions).  The model follows the loop for
\* MaxWalk iterations; pc = "loop" in the result says it has not returned.
calculateCurrentStreak(habit, cs, today) ==
    calculateCurrentStreakRun(habit, calculateCurrentStreakEnter(habit, cs, today), MaxWalk)

\* A rate that divides whatever planned is
rateOf_DividesAlways(completed, planned) ==
    Quotient(completed * 100, planned)

\* completed / planned * 100 when planned > 0, else 0
rateOf(completed, planned) ==
    IF planned > 0 THEN Quotient(completed * 100, planned) ELSE Number(0)

\* differenceInDays(today, parseISO(created_at)): full days, truncated toward zero
differenceInDays(later, earlier) ==
    IF later >= earlier THEN (later - earlier) \div TicksPerDay
    ELSE 0 - ((earlier - later) \div TicksPerDay)

\* The state the component starts in: stats null, loading true
NoStats == [component |-> "dashboard", loading |-> TRUE, stats |-> <<>>]

\* calculateStats.  stats is <<>> for null and <<the HabitStats>> otherwise.
calculateStats(hs, cs, today) ==
    LET todayStr == formatDay(today)
        activeHabits == activeHabitsOf(hs)
        todayHabits == SelectSeq(activeHabits, LAMBDA h : shouldShowHabitOnDate(h, today))
        todayCompletions == SelectSeq(cs, LAMBDA c :
            /\ c.completion_date = todayStr
            /\ \E i \in 1 .. Len(todayHabits) : todayHabits[i].id = c.habit_id)
        week == getCompletionStats(activeHabits, cs, 7, today)
        month == getCompletionStats(activeHabits, cs, 30, today)
        walks == [k \in 1 .. Len(activeHabits) |-> calculateCurrentStreak(activeHabits[k], cs, today)]
        currentStreaks == SelectSeq(
            [k \in 1 .. Len(activeHabits) |-> [habit |-> activeHabits[k], streak |-> walks[k].streak]],
            LAMBDA e : e.streak > 0)
        RECURSIVE maxStreak(_)
        maxStreak(k) == IF k = 0 THEN 0 ELSE Max(currentStreaks[k].streak, maxStreak(k - 1))
        longestStreak == maxStreak(Len(currentStreaks))
        daysSinceFirstHabit ==
            IF Len(hs) > 0 THEN Max(1, differenceInDays(today, hs[1].created_at)) ELSE 1
        averageDailyCompletions == Quotient(Len(cs), daysSinceFirstHabit)
        byStreak == StableSort(currentStreaks, LAMBDA a, b : b.streak - a.streak < 0)
        calculatedStats ==
            [totalHabits |-> Len(hs),
             activeHabits |-> Len(activeHabits),
             todayCompletionRate |-> IF Len(todayHabits) > 0
                                     THEN Quotient(Len(todayCompletions) * 100, Len(todayHabits))
                                     ELSE Number(0),
             weekCompletionRate |-> rateOf(week.completed, week.planned),
             monthCompletionRate |-> rateOf(month.completed, month.planned),
             longestStreak |-> longestStreak,
             currentStreaks |-> SubSeq(byStreak, 1, Min(3, Len(byStreak))),
             totalCompletions |-> Len(cs),
             averageDailyCompletions |-> averageDailyCompletions,
             todayCompleted |-> Len(todayCompletions),
             todayPlanned |-> Len(todayHabits),
             weekCompleted |-> week.completed,
             weekPlanned |-> week.planned,
             monthCompleted |-> month.completed,
             monthPlanned |-> month.planned]
    IN  IF \E k \in 1 .. Len(activeHabits) : walks[k].pc # "done"
        THEN NoStats   \* a streak computation has not returned: setStats is not reached
        ELSE [component |-> "dashboard", loading |-> FALSE, stats |-> <<calculatedStats>>]

-----------------------------------------------------------------------------
(* Ranking by failure rate: MostAbandonedHabits.tsx *)

\* useState<Date | undefined>(): <<>> is undefined, <<date>> a selected date
Undefined == <<>>

\* A body that counts a completion whether or not the habit is due on the date
abandonedCountBody_CountsOffSchedule(habit, cs, st) ==
    LET currentDate == st.at
        due == abandonedShouldShowHabitOnDate(habit, currentDate)
        dateStr == formatDay(currentDate)
        hasCompletion == someOf(cs, habit, dateStr)
    IN  [at |-> addDays(currentDate, 1),
         planned |-> IF due THEN st.planned + 1 ELSE st.planned,
         completed |-> IF hasCompletion THEN st.completed + 1 ELSE st.completed,
         visited |-> Append(st.visited, dateStr)]

\* calculateAbandonedHabits: the body of while (currentDate <= endDate)
abandonedCountBody(habit, cs, st) ==
    LET currentDate == st.at
        due == abandonedShouldShowHabitOnDate(habit, currentDate)
        dateStr == formatDay(currentDate)
        hasCompletion == someOf(cs, habit, dateStr)
    IN  [at |-> addDays(currentDate, 1),
         planned |-> IF due THEN st.planned + 1 ELSE st.planned,
         completed |-> IF due /\ hasCompletion THEN st.completed + 1 ELSE st.completed,
         visited |-> Append(st.visited, dateStr)]

RECURSIVE abandonedCountLoop(_, _, _, _, _)
\* A loop that stops before the end date: currentDate < endDate
abandonedCountLoop_StopsBeforeEnd(habit, cs, endDate, st, n) ==
    IF n = 0 \/ ~(st.at < endDate) THEN st
    ELSE IF n = 1 THEN abandonedCountBody(habit, cs, st)
    ELSE abandonedCountLoop(habit, cs, endDate,
            abandonedCountLoop(habit, cs, endDate, st, n \div 2), n - (n \div 2))

\* calculateAbandonedHabits: the loop from state st, for n iterations or until
\* currentDate <= endDate fails
abandonedCountLoop(habit, cs, endDate, st, n) ==
    IF n = 0 \/ ~(st.at <= endDate) THEN st
    ELSE IF n = 1 THEN abandonedCountBody(habit, cs, st)
    ELSE abandonedCountLoop(habit, cs, endDate,
            abandonedCountLoop(habit, cs, endDate, st, n \div 2), n - (n \div 2))

\* A loop that tests after its body: do ... while (currentDate <= endDate)
abandonedCount_TestsAfterBody(habit, cs, startDate, endDate) ==
    Counts(abandonedCountLoop(habit, cs, endDate,
                              abandonedCountBody(habit, cs, Counting(startDate)),
                              Fuel(startDate, endDate)))

\* calculateAbandonedHabits: plannedDays and completedDays of one habit
abandonedCount(habit, cs, startDate, endDate) ==
    Counts(abandonedCountLoop(habit, cs, endDate, Counting(startDate), Fuel(startDate, endDate)))

\* A comparator that looks at the failure rate only
abandonedBefore_IgnoresMissedDays(a, b) ==
    Greater(a.failureRate, b.failureRate)

\* A comparator that orders entries equal in rate and missed days by creation
abandonedBefore_TiesByCreation(a, b) ==
    IF a.failureRate # b.failureRate
    THEN Greater(a.failureRate, b.failureRate)
    ELSE IF a.missedDays # b.missedDays
    THEN b.missedDays - a.missedDays < 0
    ELSE a.habit.created_at > b.habit.created_at

\* compare(a, b) < 0 for the comparator of the ranking
abandonedBefore(a, b) ==
    IF a.failureRate # b.failureRate
    THEN Greater(a.failureRate, b.failureRate)   \* b.failureRate - a.failureRate < 0
    ELSE b.missedDays - a.missedDays < 0

\* The state the component starts in
NoAbandoned ==
    [component |-> "abandoned", period |-> "30",
     customStartDate |-> Undefined, customEndDate |-> Undefined,
     ran |-> FALSE, startDate |-> 0, endDate |-> 0, scans |-> <<>>, abandonedHabits |-> <<>>]

\* calculateAbandonedHabits, run in component state prev.  ran, startDate, endDate
\* and scans are not state of the code: they record whether the run got past the
\* switch, the window it used and the counts of each active habit.
calculateAbandonedHabits(prev, hs, cs, today) ==
    LET period == prev.period
        bothSet == prev.customStartDate # Undefined /\ prev.customEndDate # Undefined
        startDate == CASE period = "7" -> subDays(today, 7)
                       [] period = "30" -> subDays(today, 30)
                       [] period = "90" -> subDays(today, 90)
                       [] period = "custom" /\ bothSet -> prev.customStartDate[1]
                       [] OTHER -> subDays(today, 30)
        endDate == IF period = "custom" /\ bothSet THEN prev.customEndDate[1] ELSE today
        activeHabits == activeHabitsOf(hs)
        scans == [k \in 1 .. Len(activeHabits) |->
                    [habit |-> activeHabits[k],
                     counts |-> abandonedCount(activeHabits[k], cs, startDate, endDate)]]
        habitStats == [k \in 1 .. Len(activeHabits) |->
                        LET plannedDays == scans[k].counts.planned
                            completedDays == scans[k].counts.completed
                            missedDays == plannedDays - completedDays
                        IN  [habit |-> activeHabits[k],
                             missedDays |-> missedDays,
                             plannedDays |-> plannedDays,
                             failureRate |-> Quotient(missedDays * 100, plannedDays)]]
        pushed == SelectSeq(habitStats, LAMBDA h : h.plannedDays > 0)
        sorted == StableSort(SelectSeq(pushed, LAMBDA h : Greater(h.failureRate, Number(0))),
                             abandonedBefore)
    IN  IF period = "custom" /\ ~bothSet
        THEN [prev EXCEPT !.ran = FALSE, !.scans = <<>>]   \* return: the list stays as it was
        ELSE [prev EXCEPT !.ran = TRUE, !.startDate = startDate, !.endDate = endDate,
                          !.scans = scans, !.abandonedHabits = sorted]

-----------------------------------------------------------------------------
(* Week aggregator of the chart: part_002 *)

\* shouldShowHabitOnDate of the chart
chartShouldShowHabitOnDate(habit, date) ==
    LET dayName == formatDayName(date)
    IN  CASE habit.frequency_type = "daily" -> TRUE
          [] habit.frequency_type = "alternate" ->
                LET createdDate == habit.created_at
                    daysSinceCreation == daysSince(date, createdDate)
                IN  daysSinceCreation >= 0 /\ JsRem(daysSinceCreation, 2) = 0
          [] habit.frequency_type = "custom" -> customDaysIncludes(habit.custom_days, dayName)
          [] OTHER -> FALSE

RECURSIVE chartForEachHabitOn(_, _, _, _, _)
\* getWeekStats: habits.forEach(habit => ...) for one date, from habit k on
chartForEachHabitOn(hs, cs, currentDate, k, acc) ==
    IF k > Len(hs) THEN acc
    ELSE LET habit == hs[k]
             dateStr == formatDay(currentDate)
             due == chartShouldShowHabitOnDate(habit, currentDate)
             hasCompletion == someOf(cs, habit, dateStr)
         IN  chartForEachHabitOn(hs, cs, currentDate, k + 1,
                [acc EXCEPT !.planned = IF due THEN @ + 1 ELSE @,
                            !.completed = IF due /\ hasCompletion THEN @ + 1 ELSE @])

\* getWeekStats: the body of while (currentDate <= weekEnd)
getWeekStatsBody(hs, cs, st) ==
    LET currentDate == st.at
        counted == chartForEachHabitOn(hs, cs, currentDate, 1, st)
    IN  [counted EXCEPT !.at = addDays(currentDate, 1),
                        !.visited = Append(@, formatDay(currentDate))]

RECURSIVE getWeekStatsLoop(_, _, _, _, _)
\* getWeekStats: the loop from state st, for n iterations or until
\* currentDate <= weekEnd fails
getWeekStatsLoop(weekEnd, hs, cs, st, n) ==
    IF n = 0 \/ ~(st.at <= weekEnd) THEN st
    ELSE IF n = 1 THEN getWeekStatsBody(hs, cs, st)
    ELSE getWeekStatsLoop(weekEnd, hs, cs,
            getWeekStatsLoop(weekEnd, hs, cs, st, n \div 2), n - (n \div 2))

\* getWeekStats(weekStart, weekEnd, habits, completions)
getWeekStats(weekStart, weekEnd, hs, cs) ==
    Counts(getWeekStatsLoop(weekEnd, hs, cs, Counting(weekStart), Fuel(weekStart, weekEnd)))

\* getWeekStatsForHabit: the body of while (currentDate <= weekEnd)
getWeekStatsForHabitBody(habit, cs, st) ==
    LET currentDate == st.at
        dateStr == formatDay(currentDate)
        due == chartShouldShowHabitOnDate(habit, currentDate)
        hasCompletion == someOf(cs, habit, dateStr)
    IN  [at |-> addDays(currentDate, 1),
         planned |-> IF due THEN st.planned + 1 ELSE st.planned,
         completed |-> IF due /\ hasCompletion THEN st.completed + 1 ELSE st.completed,
         visited |-> Append(st.visited, dateStr)]

RECURSIVE getWeekStatsForHabitLoop(_, _, _, _, _)
\* getWeekStatsForHabit: the loop from state st, for n iterations or until
\* currentDate <= weekEnd fails
getWeekStatsForHabitLoop(weekEnd, habit, cs, st, n) ==
    IF n = 0 \/ ~(st.at <= weekEnd) THEN st
    ELSE IF n = 1 THEN getWeekStatsForHabitBody(habit, cs, st)
    ELSE getWeekStatsForHabitLoop(weekEnd, habit, cs,
            getWeekStatsForHabitLoop(weekEnd, habit, cs, st, n \div 2), n - (n \div 2))

\* getWeekStatsForHabit(weekStart, weekEnd, habit, completions)
getWeekStatsForHabit(weekStart, weekEnd, habit, cs) ==
    Counts(getWeekStatsForHabitLoop(weekEnd, habit, cs, Counting(weekStart), Fuel(weekStart, weekEnd)))

\* The values of a week of the chart: the total of the active habits and the
\* value of each of them
weekDataPoint(weekStart, weekEnd, hs, cs) ==
    LET activeHabits == activeHabitsOf(hs)
        weekStats == getWeekStats(weekStart, weekEnd, activeHabits, cs)
    IN  [component |-> "chart", weekStart |-> weekStart, weekEnd |-> weekEnd,
         weekStats |-> weekStats,
         total |-> IF weekStats.planned > 0
                   THEN Quotient(weekStats.completed * 100, weekStats.planned)
                   ELSE Number(0),
         perHabit |-> [k \in 1 .. Len(activeHabits) |->
            LET habitStats == getWeekStatsForHabit(weekStart, weekEnd, activeHabits[k], cs)
            IN  [habit |-> activeHabits[k], habitStats |-> habitStats,
                 value |-> IF habitStats.planned > 0
                           THEN Quotient(habitStats.completed * 100, habitStats.planned)
                           ELSE Number(0)]]]

-----------------------------------------------------------------------------
(* The aggregators at work.  view is the component rendered last. *)

\* Days a custom range or a week may start and end on
RangeDays == (MaxDay - RangeSpan + 1) .. MaxDay

\* Completion records next to those of h1: one of the second habit, and with
\* it a second record of h1 for the same day
ExtraCompletions(today) ==
    { <<>>,
      <<HabitCompletion("h2", formatDay(today))>>,
      <<HabitCompletion("h2", formatDay(today)), HabitCompletion("h1", formatDay(today))>> }

HabitLists ==
    {<<>>}
    \cup {<<h>> : h \in HabitInputs("h1", TRUE) \cup {Habit("h1", "daily", NULL, At(0, 0), FALSE)}}
    \cup {<<h, Habit("h2", "daily", NULL, At(0, 1), TRUE)>> : h \in HabitInputs("h1", TRUE)}
    \cup {<<Habit("h2", "daily", NULL, At(0, 1), TRUE), h>> : h \in HabitInputs("h1", TRUE)}

InitAgg ==
    /\ now \in {At(MaxDay, k) : k \in Ticks}
    /\ habits \in HabitLists
    /\ \E S \in SUBSET ((formatDay(now) - AggSpan + 1) .. formatDay(now)) :
       \E extra \in ExtraCompletions(now) :
            completions = CompletionsOn("h1", S) \o extra
    /\ query = NoQuery
    /\ answer = FALSE
    /\ site = "none"
    /\ walk = IdleWalk
    /\ view = NoView
    /\ Offline

\* A component renders.  The components read habits, completions and the clock
\* and nothing of each other, so each is followed from the view before it.
Render(v) ==
    /\ view' = v
    /\ UNCHANGED <<habits, completions, now, query, answer, site, walk, remote>>

\* The dashboard mounts: useEffect runs calculateStats
CalculateStats ==
    /\ view = NoView
    /\ Render(calculateStats(habits, completions, now))

\* getCompletionStats and the rate taken from it, for the windows of the dashboard
CompletionStats ==
    /\ view = NoView
    /\ \E days \in {7, 30} :
        LET counts == getCompletionStats(activeHabitsOf(habits), completions, days, now)
        IN  Render([component |-> "completionStats", days |-> days, counts |-> counts,
                    rate |-> rateOf(counts.completed, counts.planned)])

\* The days the calendars of the custom range offer: react-day-picker gives the
\* start of the day picked
CustomDates == {<<At(d, 0)>> : d \in RangeDays}

\* The ranking with a period button pressed, or with both days of a custom range
\* picked (which sets the period to custom): the effect runs calculateAbandonedHabits
CalculateAbandonedHabits ==
    /\ view = NoView
    /\ \/ \E p \in {"7", "30", "90"} :
            Render(calculateAbandonedHabits([NoAbandoned EXCEPT !.period = p],
                                            habits, completions, now))
       \/ \E from \in CustomDates, to \in CustomDates :
            Render(calculateAbandonedHabits(
                    [NoAbandoned EXCEPT !.period = "custom",
                                        !.customStartDate = from, !.customEndDate = to],
                    habits, completions, now))

\* The picked day of a calendar is clicked again while the period is custom:
\* onSelect(undefined), then the effect
ClearCustomDate ==
    /\ view.component = "abandoned"
    /\ view.period = "custom"
    /\ \/ /\ view.customStartDate # Undefined
          /\ Render(calculateAbandonedHabits([view EXCEPT !.customStartDate = Undefined],
                                             habits, completions, now))
       \/ /\ view.customEndDate # Undefined
          /\ Render(calculateAbandonedHabits([view EXCEPT !.customEndDate = Undefined],
                                             habits, completions, now))

\* getWeekStats and getWeekStatsForHabit over a window of whole days: weekStart
\* is the start of its day and weekEnd the end of its day, as startOfWeek and
\* endOfWeek give them
WeekStats ==
    /\ view = NoView
    /\ \E a \in RangeDays, b \in RangeDays :
        Render(weekDataPoint(At(a, 0), At(b, TicksPerDay - 1), habits, completions))

NextAgg ==
    \/ CalculateStats
    \/ CompletionStats
    \/ CalculateAbandonedHabits
    \/ ClearCustomDate
    \/ WeekStats

SpecAgg == InitAgg /\ [][NextAgg]_vars

-----------------------------------------------------------------------------
(* The chart: chartData of part_002 *)

\* startOfWeek(date, { weekStartsOn: 1 }): the Monday of the week, at its start
startOfWeek(date) == At(formatDay(date) - (formatDay(date) % 7), 0)

\* endOfWeek(date, { weekStartsOn: 1 }): the Sunday of the week, at its end
endOfWeek(date) == At(formatDay(date) - (formatDay(date) % 7) + 6, TicksPerDay - 1)

\* Math.ceil(n / 7)
ceilWeeks(n) == (n + 6) \div 7

\* A rate of the chart: completed / planned * 100 when planned > 0, else 0
chartRate(completed, planned) ==
    IF planned > 0 THEN Quotient(completed * 100, planned) ELSE Number(0)

\* ids of the habits of a list
idsOf(hs) == {hs[k].id : k \in 1 .. Len(hs)}

\* A habit gets a value at a point of day view without being due on its date
hasDayEntry_WhenSelected(habit, date, selectedHabits) ==
    habit.id \in selectedHabits

\* selectedHabits.has(habit.id) && shouldShowHabitOnDate(habit, date)
hasDayEntry(habit, date, selectedHabits) ==
    habit.id \in selectedHabits /\ chartShouldShowHabitOnDate(habit, date)

\* A point of day view.  values is the point without date and dateLabel: the
\* key total, or a key for each habit that got one.
dayPoint(date, viewMode, selectedHabits, activeHabits, cs) ==
    LET dateStr == formatDay(date)
        dayHabits == SelectSeq(activeHabits, LAMBDA h : chartShouldShowHabitOnDate(h, date))
        dayCompletions == SelectSeq(cs, LAMBDA c :
            c.completion_date = dateStr /\ c.habit_id \in idsOf(dayHabits))
        shown == SelectSeq(activeHabits, LAMBDA h : hasDayEntry(h, date, selectedHabits))
    IN  [date |-> dateStr,
         values |-> IF viewMode = "total"
            THEN [key \in {"total"} |-> chartRate(Len(dayCompletions), Len(dayHabits))]
            ELSE [key \in idsOf(shown) |->
                    LET habit == CHOOSE h \in {shown[k] : k \in 1 .. Len(shown)} : h.id = key
                    IN  IF someOf(cs, habit, dateStr) THEN Number(100) ELSE Number(0)]]

\* A point of week view.  visited is not in the code: the dates the week's
\* aggregation went through.
weekPoint(weekEnd, viewMode, selectedHabits, activeHabits, cs) ==
    LET weekStart == startOfWeek(weekEnd)
        weekEndActual == endOfWeek(weekEnd)
        weekStats == getWeekStats(weekStart, weekEndActual, activeHabits, cs)
        shown == SelectSeq(activeHabits, LAMBDA h : h.id \in selectedHabits)
    IN  [date |-> formatDay(weekStart),
         visited |-> IF viewMode = "total" THEN weekStats.visited
                     ELSE IF Len(shown) = 0 THEN <<>>
                     ELSE getWeekStatsForHabit(weekStart, weekEndActual, shown[1], cs).visited,
         values |-> IF viewMode = "total"
            THEN [key \in {"total"} |-> chartRate(weekStats.completed, weekStats.planned)]
            ELSE [key \in idsOf(shown) |->
                    LET habit == CHOOSE h \in {shown[k] : k \in 1 .. Len(shown)} : h.id = key
                        habitStats == getWeekStatsForHabit(weekStart, weekEndActual, habit, cs)
                    IN  chartRate(habitStats.completed, habitStats.planned)]]

\* The points left in the order the loop pushed them
Reverse_KeepsOrder(seq) == seq

\* data.reverse()
Reverse(seq) == [i \in 1 .. Len(seq) |-> seq[Len(seq) + 1 - i]]

\* chartData: the useMemo of the chart
chartData(periodView, viewMode, selectedHabits, dateRange, hs, cs, endDate) ==
    LET activeHabits == activeHabitsOf(hs)
        weeksToShow == ceilWeeks(dateRange)
    IN  CASE periodView = "day" ->
                [n \in 1 .. (dateRange + 1) |->
                    dayPoint(subDays(endDate, dateRange - (n - 1)),
                             viewMode, selectedHabits, activeHabits, cs)]
          [] periodView = "week" ->
                Reverse([n \in 1 .. weeksToShow |->
                    weekPoint(subDays(endDate, (n - 1) * 7),
                              viewMode, selectedHabits, activeHabits, cs)])
          [] OTHER -> <<>>

\* The habit lists the chart is followed for
ChartHabitLists ==
    {<<>>}
    \cup {<<h, Habit("h2", "daily", NULL, At(0, 1), TRUE)>> : h \in HabitInputs("h1", TRUE)}
    \cup {<<Habit("h1", "daily", NULL, At(0, 0), FALSE), Habit("h2", "daily", NULL, At(0, 1), TRUE)>>}

InitChart ==
    /\ now \in NowInputs
    /\ habits \in ChartHabitLists
    /\ \E S \in SUBSET ((formatDay(now) - AggSpan + 1) .. formatDay(now)) :
       \E extra \in ExtraCompletions(now) :
            completions = CompletionsOn("h1", S) \o extra
    /\ query = NoQuery
    /\ answer = FALSE
    /\ site = "none"
    /\ walk = IdleWalk
    /\ view = NoView
    /\ Offline

\* The sets selectedHabits can be: it starts as the ids of all habits, and the
\* filter buttons toggle the ids of the active ones
SelectedHabitsOf(hs) ==
    {S \cup (idsOf(hs) \ idsOf(activeHabitsOf(hs))) : S \in SUBSET idsOf(activeHabitsOf(hs))}

\* The chart with its buttons in some position: the period view, the view
\* mode, the date range and the habit filter.  useMemo computes chartData.
\* startDate is computed by the code and not used by it.
ChartData ==
    /\ view = NoView
    /\ \E periodView \in {"day", "week"}, viewMode \in {"total", "per-habit"},
          dateRange \in {7, 30, 90}, selectedHabits \in SelectedHabitsOf(habits) :
        Render([component |-> "analyticsChart",
                periodView |-> periodView, viewMode |-> viewMode,
                dateRange |-> dateRange, selectedHabits |-> selectedHabits,
                startDate |-> subDays(now, dateRange), endDate |-> now,
                data |-> chartData(periodView, viewMode, selectedHabits, dateRange,
                                   habits, completions, now)])

NextChart == ChartData

SpecChart == InitChart /\ [][NextChart]_vars

-----------------------------------------------------------------------------
(* Claims about the schedule evaluator, checked under SpecDue *)

TheHabit == habits[1]

\* Whole calendar days from the habit's creation day to the day of the Date asked about
CalendarOffset == formatDay(query.date) - formatDay(TheHabit.created_at)

\* C2: for an Alternate habit created on calendar date D, the due check (dashboard
\* and abandoned-habits copies) is true for D, false for D+1, true for D+2, false
\* for D-1, and for a date on or after D it is true iff the whole-day offset from
\* D is even.
C2_AlternateDueByCalendarOffset ==
    (query.site \in {"dashboard", "abandoned"} /\ TheHabit.frequency_type = "alternate")
        => /\ CalendarOffset \in {0, 2} => answer = TRUE
           /\ CalendarOffset \in {1, 0 - 1} => answer = FALSE
           /\ CalendarOffset >= 0 => (answer <=> CalendarOffset % 2 = 0)

\* C3: for an Alternate habit every copy of the due check returns false for every
\* date before the habit's creation date, also an even number of days before it.
C3_AlternateNotDueBeforeCreation ==
    (query.site \in DueSites /\ TheHabit.frequency_type = "alternate" /\ CalendarOffset < 0)
        => answer = FALSE

-----------------------------------------------------------------------------
(* Claims about the streak calculator, checked under SpecStreak *)

Today == formatDay(now)

\* The due check the running streak computation uses
DueAt(s, date) ==
    CASE s = "dashboard" -> shouldShowHabitOnDate(TheHabit, date)
      [] s = "shared" -> sharedShouldHaveHabitOnDate(date, TheHabit)
      [] s = "card" -> shouldHaveHabitOnDate(date, TheHabit)
      [] OTHER -> FALSE

\* The walk examines each day at the time of day of  new Date()
DueOnDay(s, d) == DueAt(s, At(d, now % TicksPerDay))

\* The days on which the habit has a completion
CompletedDays ==
    {completions[i].completion_date :
        i \in {j \in 1 .. Len(completions) : completions[j].habit_id = TheHabit.id}}

\* The due-and-completed days met walking back from today, up to the first due day
\* without a completion
UnbrokenRun(s) ==
    LET done == CompletedDays IN
    {d \in done : /\ d <= Today
                  /\ DueOnDay(s, d)
                  /\ \A b \in d .. Today : DueOnDay(s, b) => b \in done}

\* C1: the streak computation (dashboard and habit card) terminates after walking at
\* most 365 calendar days backward from the reference date: no iteration examines a
\* date more than 365 days before it.
C1_WalkWithin365Days ==
    (site \in {"dashboard", "card"} /\ walk.pc = "loop") => DaysWalked <= 365

C5_AlternateScenario ==
    (/\ site \in {"dashboard", "shared"}
     /\ TheHabit.frequency_type = "alternate"
     /\ formatDay(TheHabit.created_at) = 0
     /\ TheHabit.created_at % TicksPerDay <= now % TicksPerDay
     /\ CompletedDays = {0, 2, 4})
        => /\ (Today = 6 /\ walk.pc = "done") => walk.streak = 0
           /\ (Today = 5 /\ walk.pc = "done") => walk.streak = 3
           /\ (Today \in {5, 6} /\ walk.pc = "loop") => DaysWalked <= 365

\* C6: a date on which the habit is not due neither increments nor breaks the
\* streak, whether or not a completion is recorded on it: the iteration that
\* examines it leaves the streak as it is and goes on to the previous day.
C6_NonDueDateSkipped ==
    [][(walk.pc = "loop" /\ ~DueAt(site, walk.checkDate))
          => (walk'.streak = walk.streak /\ walk'.checkDate = subDays(walk.checkDate, 1))]_vars

\* C7: the streak is 0 when the habit has no completions, and when the most recent
\* due date at or before the reference date has no completion.
C7_ZeroWhenLatestDueDateMissed ==
    (site \in {"dashboard", "card"} /\ walk.pc = "done")
        => /\ CompletedDays = {} => walk.streak = 0
           /\ \A d \in (Today - 13) .. Today :
                 (/\ DueOnDay(site, d)
                  /\ d \notin CompletedDays
                  /\ \A e \in (d + 1) .. Today : ~DueOnDay(site, e))
                     => walk.streak = 0

-----------------------------------------------------------------------------
(* Claims about the window aggregates, checked under SpecAgg *)

\* The calendar dates from the date of start to the date of end, in order
DatesFromTo(start, end) ==
    [i \in 1 .. Max(0, formatDay(end) - formatDay(start) + 1) |-> formatDay(start) + i - 1]

\* The instant at which a loop that starts at start evaluates calendar date d
InstantOn(start, d) == start + (d - formatDay(start)) * TicksPerDay

\* The dates of the window on which the habit is due, Due(habit, date) being the
\* due check of the aggregator
DueDates(Due(_, _), habit, start, end) ==
    {d \in formatDay(start) .. formatDay(end) : Due(habit, InstantOn(start, d))}

\* ... and those of them with a completion of the habit
CompletedDates(Due(_, _), habit, start, end) ==
    {d \in DueDates(Due, habit, start, end) :
        \E i \in 1 .. Len(completions) :
            /\ completions[i].habit_id = habit.id
            /\ completions[i].completion_date = d}

\* Positions of the active habits in the habit list
ActiveIndices == {k \in 1 .. Len(habits) : habits[k].is_active}

\* counts are those of the habit over the window, every date visited once
CountsMatch(counts, Due(_, _), habit, start, end) ==
    /\ counts.visited = DatesFromTo(start, end)
    /\ counts.planned = Cardinality(DueDates(Due, habit, start, end))
    /\ counts.completed = Cardinality(CompletedDates(Due, habit, start, end))

\* C8: the window aggregate visits every calendar date from startDate to endDate
\* inclusive exactly once; planned is the number of (active habit, date) pairs
\* of the window on which the habit is due and completed the number of those
\* pairs with a completion of the same habit id and date.  For the ranking the
\* counts are kept per active habit, for the chart per habit and in total.
C8_WindowAggregateCounts ==
    /\ (view.component = "abandoned" /\ view.ran) =>
        /\ Len(view.scans) = Cardinality(ActiveIndices)
        /\ \A k \in 1 .. Len(view.scans) :
            /\ view.scans[k].habit = activeHabitsOf(habits)[k]
            /\ CountsMatch(view.scans[k].counts, abandonedShouldShowHabitOnDate,
                           view.scans[k].habit, view.startDate, view.endDate)
    /\ view.component = "chart" =>
        /\ view.weekStats.visited = DatesFromTo(view.weekStart, view.weekEnd)
        /\ view.weekStats.planned = Cardinality(
            {<<k, d>> \in ActiveIndices \X (formatDay(view.weekStart) .. formatDay(view.weekEnd)) :
                d \in DueDates(chartShouldShowHabitOnDate, habits[k], view.weekStart, view.weekEnd)})
        /\ view.weekStats.completed = Cardinality(
            {<<k, d>> \in ActiveIndices \X (formatDay(view.weekStart) .. formatDay(view.weekEnd)) :
                d \in CompletedDates(chartShouldShowHabitOnDate, habits[k], view.weekStart, view.weekEnd)})
        /\ Len(view.perHabit) = Cardinality(ActiveIndices)
        /\ \A k \in 1 .. Len(view.perHabit) :
            /\ view.perHabit[k].habit = activeHabitsOf(habits)[k]
            /\ CountsMatch(view.perHabit[k].habitStats, chartShouldShowHabitOnDate,
                           view.perHabit[k].habit, view.weekStart, view.weekEnd)

\* The ranking ran over a window of several dates for two active habits, one of
\* them completed on some of its due dates and missed on others
C8_Witness ==
    /\ view.component = "abandoned"
    /\ view.ran
    /\ Len(view.scans) = 2
    /\ \E k \in 1 .. 2 :
        /\ Len(view.scans[k].counts.visited) >= 2
        /\ view.scans[k].counts.completed >= 1
        /\ view.scans[k].counts.completed < view.scans[k].counts.planned
        /\ view.scans[k].counts.planned < Len(view.scans[k].counts.visited)

\* C9: over a window with startDate > endDate the aggregate performs zero
\* iterations and yields planned = 0 and completed = 0, and the ranking is
\* empty; the computation ends normally.
C9_EmptyWindowWhenStartAfterEnd ==
    /\ (view.component = "abandoned" /\ view.ran /\ view.startDate > view.endDate) =>
        /\ Len(view.scans) = Cardinality(ActiveIndices)
        /\ \A k \in 1 .. Len(view.scans) :
            view.scans[k].counts = [completed |-> 0, planned |-> 0, visited |-> <<>>]
        /\ view.abandonedHabits = <<>>
    /\ (view.component = "chart" /\ view.weekStart > view.weekEnd) =>
        /\ view.weekStats = [completed |-> 0, planned |-> 0, visited |-> <<>>]
        /\ \A k \in 1 .. Len(view.perHabit) :
            view.perHabit[k].habitStats = [completed |-> 0, planned |-> 0, visited |-> <<>>]

\* The ranking ran over a custom range that ends before it starts, with an
\* active daily habit and a completion of it
C9_Witness ==
    /\ view.component = "abandoned"
    /\ view.ran
    /\ view.period = "custom"
    /\ view.startDate > view.endDate
    /\ \E k \in 1 .. Len(view.scans) : view.scans[k].habit.frequency_type = "daily"
    /\ \E i \in 1 .. Len(completions) : completions[i].habit_id = "h1"

\* No active habit is due on any of the dates the dashboard's window visits
NoneDue(days) ==
    \A k \in ActiveIndices : \A i \in 0 .. (days - 1) :
        ~shouldShowHabitOnDate(habits[k], subDays(now, i))

\* C10: over an empty habit list, or a window in which no habit is due, the
\* aggregate yields planned = 0 and completed = 0 whatever the completion list,
\* and the completion rate derived from it is exactly 0, never NaN.
C10_ZeroRateWhenNothingDue ==
    /\ (view.component = "completionStats" /\ NoneDue(view.days)) =>
        /\ view.counts.planned = 0
        /\ view.counts.completed = 0
        /\ view.rate = Number(0)
    /\ (view.component = "dashboard" /\ view.stats # <<>>) =>
        LET stats == view.stats[1]
        IN  /\ NoneDue(7) =>
                /\ stats.weekPlanned = 0
                /\ stats.weekCompleted = 0
                /\ stats.weekCompletionRate = Number(0)
            /\ NoneDue(30) =>
                /\ stats.monthPlanned = 0
                /\ stats.monthCompleted = 0
                /\ stats.monthCompletionRate = Number(0)

\* The aggregate ran for an active habit that is due on no date of the window
\* and has a completion on a date of the window
C10_Witness ==
    /\ view.component = "completionStats"
    /\ ActiveIndices # {}
    /\ NoneDue(view.days)
    /\ \E i \in 1 .. Len(completions) :
        /\ completions[i].habit_id = habits[1].id
        /\ completions[i].completion_date = formatDay(now)

-----------------------------------------------------------------------------
(* Claims about the ranking by failure rate, checked under SpecAgg *)

\* The ranking has been computed for the window in view
Ranked == view.component = "abandoned" /\ view.ran

\* Due dates and missed due dates of a habit in the window of the ranking
PlannedIn(habit) ==
    Cardinality(DueDates(abandonedShouldShowHabitOnDate, habit, view.startDate, view.endDate))

MissedIn(habit) ==
    PlannedIn(habit)
    - Cardinality(CompletedDates(abandonedShouldShowHabitOnDate, habit, view.startDate, view.endDate))

\* C11: the ranking has an entry for a habit iff the habit is active, is due at
\* least once in the window and missed at least one due date; a habit with
\* planned = 0 or failure rate 0 never appears, and no habit appears twice.
C11_RankingMembership ==
    Ranked =>
        /\ \A k \in 1 .. Len(habits) :
            (\E i \in 1 .. Len(view.abandonedHabits) : view.abandonedHabits[i].habit = habits[k])
            <=> (habits[k].is_active /\ PlannedIn(habits[k]) > 0 /\ MissedIn(habits[k]) > 0)
        /\ \A i \in 1 .. Len(view.abandonedHabits) :
            /\ \E k \in 1 .. Len(habits) : view.abandonedHabits[i].habit = habits[k]
            /\ view.abandonedHabits[i].plannedDays > 0
            /\ Greater(view.abandonedHabits[i].failureRate, Number(0))
            /\ \A j \in 1 .. Len(view.abandonedHabits) :
                view.abandonedHabits[j].habit = view.abandonedHabits[i].habit => j = i

\* The ranking ran for two active habits that are both due in the window: one
\* missed a due date and is listed, the other missed none and is not
C11_Witness ==
    /\ Ranked
    /\ Len(view.scans) = 2
    /\ Len(view.abandonedHabits) = 1
    /\ \A k \in 1 .. 2 : view.scans[k].counts.planned > 0
    /\ \E k \in 1 .. 2 : view.scans[k].counts.planned = view.scans[k].counts.completed

\* C12: the ranking is in descending order of failureRate, entries of equal
\* failureRate in descending order of missed days, where failureRate is
\* missed / planned * 100 and missed is planned - completed.
C12_RankingOrder ==
    Ranked =>
        /\ \A i \in 1 .. Len(view.abandonedHabits) :
            LET e == view.abandonedHabits[i]
            IN  /\ e.plannedDays = PlannedIn(e.habit)
                /\ e.missedDays = MissedIn(e.habit)
                /\ e.failureRate = Quotient(e.missedDays * 100, e.plannedDays)
        /\ \A i \in 1 .. Len(view.abandonedHabits) - 1 :
            LET a == view.abandonedHabits[i]
                b == view.abandonedHabits[i + 1]
            IN  \/ a.missedDays * b.plannedDays > b.missedDays * a.plannedDays
                \/ /\ a.missedDays * b.plannedDays = b.missedDays * a.plannedDays
                   /\ a.missedDays >= b.missedDays

\* Two habits have the same failure rate and the one later in the habit list
\* has missed more days: it is listed first
C12_Witness ==
    /\ Ranked
    /\ Len(view.abandonedHabits) = 2
    /\ view.abandonedHabits[1].failureRate = view.abandonedHabits[2].failureRate
    /\ view.abandonedHabits[1].missedDays > view.abandonedHabits[2].missedDays
    /\ view.abandonedHabits[1].habit = habits[2]

\* C13: entries equal in both failureRate and missed days keep the relative
\* order their habits have in the habit list.
C13_RankingTiesKeepListOrder ==
    Ranked =>
        \A i \in 1 .. Len(view.abandonedHabits), j \in 1 .. Len(view.abandonedHabits) :
            LET a == view.abandonedHabits[i]
                b == view.abandonedHabits[j]
            IN  (i < j /\ a.failureRate = b.failureRate /\ a.missedDays = b.missedDays) =>
                    \E k \in 1 .. Len(habits), l \in 1 .. Len(habits) :
                        k < l /\ habits[k] = a.habit /\ habits[l] = b.habit

\* Two habits tie in failure rate and missed days, and the one created later
\* is first in the habit list
C13_Witness ==
    /\ Ranked
    /\ Len(view.abandonedHabits) = 2
    /\ view.abandonedHabits[1].failureRate = view.abandonedHabits[2].failureRate
    /\ view.abandonedHabits[1].missedDays = view.abandonedHabits[2].missedDays
    /\ habits[1].created_at > habits[2].created_at

-----------------------------------------------------------------------------
(* Claims about the chart, checked under SpecChart *)

ChartWeek == view.component = "analyticsChart" /\ view.periodView = "week"

ChartDay == view.component = "analyticsChart" /\ view.periodView = "day"

\* The calendar dates of the range of the chart
ChartRange == formatDay(view.startDate) .. formatDay(view.endDate)

\* Places (bucket, position) at which date d was aggregated
AggregatedAt(d) ==
    {<<n, j>> \in (1 .. Len(view.data)) \X (1 .. 7) :
        j <= Len(view.data[n].visited) /\ view.data[n].visited[j] = d}

\* C14: in week granularity the dates aggregated over all buckets are exactly
\* the dates of the range [startDate, endDate]: every date of the range is
\* aggregated in exactly one bucket and no bucket counts a date outside it.
C14_WeekBucketsCoverExactlyTheRange ==
    (ChartWeek /\ view.viewMode = "total") =>
        /\ \A d \in ChartRange : Cardinality(AggregatedAt(d)) = 1
        /\ \A n \in 1 .. Len(view.data) : \A j \in 1 .. Len(view.data[n].visited) :
            view.data[n].visited[j] \in ChartRange

\* C15: in week granularity every bucket starts on a Monday, no two buckets
\* start on the same Monday, and the buckets are in ascending order of start
\* date although the loop computes the latest week first.
C15_WeekBucketsMondaysAscending ==
    ChartWeek =>
        /\ Len(view.data) = ceilWeeks(view.dateRange)
        /\ \A n \in 1 .. Len(view.data) :
            formatDayName(At(view.data[n].date, 0)) = "monday"
        /\ \A n \in 1 .. Len(view.data), m \in 1 .. Len(view.data) :
            n < m => view.data[n].date < view.data[m].date

\* Week view over a range of several weeks
C15_Witness ==
    /\ ChartWeek
    /\ Len(view.data) >= 2
    /\ view.data[Len(view.data)].date = formatDay(startOfWeek(now))

\* Active habits due at the instant the day loop evaluates date d
DueOnChartDay(d) ==
    {k \in ActiveIndices : chartShouldShowHabitOnDate(habits[k], InstantOn(view.startDate, d))}

\* ... and those of them with a completion on d
CompletedOnChartDay(d) ==
    {k \in DueOnChartDay(d) :
        \E i \in 1 .. Len(completions) :
            completions[i].habit_id = habits[k].id /\ completions[i].completion_date = d}

\* C16: in day granularity the series has one point per calendar date from
\* startDate to endDate inclusive, in ascending order, and in total mode the
\* rate of a point is that day's completed / planned * 100 over the active
\* habits due that day, or 0 when none is due.
C16_DaySeries ==
    ChartDay =>
        /\ [n \in 1 .. Len(view.data) |-> view.data[n].date]
            = DatesFromTo(view.startDate, view.endDate)
        /\ view.viewMode = "total" =>
            \A n \in 1 .. Len(view.data) :
                LET d == view.data[n].date
                    planned == Cardinality(DueOnChartDay(d))
                    completed == Cardinality(CompletedOnChartDay(d))
                IN  /\ DOMAIN view.data[n].values = {"total"}
                    /\ view.data[n].values["total"]
                        = IF planned > 0 THEN Quotient(completed * 100, planned) ELSE Number(0)

\* C17: in per-habit day mode a point has a value for a habit iff the habit is
\* active, selected and due on the date of the point; the value is 100 when a
\* completion of that habit on that date exists and 0 otherwise.
C17_PerHabitDayPoints ==
    (ChartDay /\ view.viewMode = "per-habit") =>
        \A n \in 1 .. Len(view.data) :
            LET d == view.data[n].date
            IN  /\ DOMAIN view.data[n].values
                    = {habits[k].id : k \in {l \in DueOnChartDay(d) : habits[l].id \in view.selectedHabits}}
                /\ \A k \in DueOnChartDay(d) :
                    habits[k].id \in view.selectedHabits =>
                        view.data[n].values[habits[k].id]
                            = IF k \in CompletedOnChartDay(d) THEN Number(100) ELSE Number(0)

\* Per-habit day view with the second habit filtered out: the first habit has
\* a value of 100 at one point, and no value at another, where it is not due
C17_Witness ==
    /\ ChartDay
    /\ view.viewMode = "per-habit"
    /\ view.selectedHabits = {"h1"}
    /\ Len(habits) = 2
    /\ \E n \in 1 .. Len(view.data) :
        "h1" \in DOMAIN view.data[n].values /\ view.data[n].values["h1"] = Number(100)
    /\ \E n \in 1 .. Len(view.data) : DOMAIN view.data[n].values = {}

-----------------------------------------------------------------------------
(* Further claims about the schedule evaluator, checked under SpecDue *)

\* C18: for an Alternate habit the due check (dashboard and month calendar)
\* depends only on the calendar dates of createdAt and of the instant asked
\* about: every instant of the creation day is due and every instant of the
\* following calendar day is not.
C18_AlternateDueByCalendarDateOnly ==
    (query.site \in {"dashboard", "monthly"} /\ TheHabit.frequency_type = "alternate")
        => /\ CalendarOffset = 0 => answer = TRUE
           /\ CalendarOffset = 1 => answer = FALSE

\* The weekday of the date asked about is one of the days of the habit
WeekdaySelected ==
    /\ TheHabit.custom_days # NULL
    /\ \E i \in 1 .. 7 :
        /\ Weekdays[i] \in TheHabit.custom_days[1]
        /\ (formatDay(query.date) - (i - 1)) % 7 = 0

\* C19: for a Custom habit the due check (dashboard and App copies) is true iff
\* the lowercase English weekday name of the date is in custom_days; with
\* custom_days empty or null it is false for every date.
C19_CustomDueByWeekday ==
    (query.site \in {"dashboard", "app"} /\ TheHabit.frequency_type = "custom")
        => (answer <=> WeekdaySelected)

\* The dashboard asked about a selected weekday of a custom habit
C19_Witness ==
    /\ query.site = "dashboard"
    /\ TheHabit.frequency_type = "custom"
    /\ TheHabit.custom_days # NULL
    /\ Cardinality(TheHabit.custom_days[1]) = 1
    /\ answer = TRUE

\* C20: for a Daily habit every copy of the due check is true for every date,
\* dates before createdAt included.
C20_DailyAlwaysDue ==
    (query.site \in DueSites /\ TheHabit.frequency_type = "daily") => answer = TRUE

\* The dashboard asked about a date before the creation of a daily habit
C20_Witness ==
    /\ query.site = "dashboard"
    /\ TheHabit.frequency_type = "daily"
    /\ query.date < TheHabit.created_at
    /\ answer = TRUE

-----------------------------------------------------------------------------
(* App.tsx and the backend: the handlers that await the backend *)

MaxCalls == 2          \* runs of async handlers that may be awaiting the backend at once
MaxHabits == 1         \* rows the table habits may hold

\* Date.now() - 90 * 24 * 60 * 60 * 1000: the days of completions a load fetches
LoadWindowDays == 90

\* A run of an async handler that has sent its request.  habitId, date and
\* completed are the handler's arguments; row is the habit data of a create or an
\* update; stage is 2 for the second request of a run; ok and data are the
\* backend's answer, habitsData the answer of the first request of a load.
Run(handler, habitId, date, completed, row) ==
    [handler |-> handler, pc |-> "sent", stage |-> 1, habitId |-> habitId, date |-> date,
     completed |-> completed, row |-> row, ok |-> FALSE, data |-> <<>>, habitsData |-> <<>>]

removeAt(seq, i) == SubSeq(seq, 1, i - 1) \o SubSeq(seq, i + 1, Len(seq))

\* The table habit_completions holds at most one row per habit and date: whether
\* it takes the row
acceptsCompletion(d, row) ==
    \A k \in 1 .. Len(d.completions) :
        ~(d.completions[k].habit_id = row.habit_id
          /\ d.completions[k].completion_date = row.completion_date)

\* from('habit_completions').insert({habit_id, completion_date, ...})
insertCompletion(d, row) == [d EXCEPT !.completions = Append(@, row)]

\* from('habit_completions').delete().eq('habit_id', habitId).eq('completion_date', date)
deleteCompletions(d, habitId, date) ==
    LET kept(c) == ~(c.habit_id = habitId /\ c.completion_date = date)
    IN  [d EXCEPT !.completions = SelectSeq(@, kept)]

\* A delete that removes the row
deactivateHabit_RemovesRow(d, habitId) ==
    [d EXCEPT !.habits = {h \in @ : h.id # habitId}]

\* from('habits').update({ is_active: false }).eq('id', habitId)
deactivateHabit(d, habitId) ==
    [d EXCEPT !.habits = {IF h.id = habitId THEN [h EXCEPT !.is_active = FALSE] ELSE h : h \in @}]

\* from('habits').insert(habitData)
insertHabit(d, row) == [d EXCEPT !.habits = @ \cup {row}]

\* from('habits').update(updates).eq('id', id)
updateHabit(d, id, updates) ==
    [d EXCEPT !.habits = {IF h.id = id
                          THEN [h EXCEPT !.frequency_type = updates.frequency_type,
                                         !.custom_days = updates.custom_days]
                          ELSE h : h \in @}]

\* from('habits').select('*').eq('is_active', true).order('created_at', { ascending: false }):
\* the results the backend may give (rows of equal created_at in either order)
selectActiveHabits(d) ==
    LET rows == {h \in d.habits : h.is_active}
        n == Cardinality(rows)
    IN  {hs \in [1 .. n -> rows] :
            /\ \A i, j \in 1 .. n : i # j => hs[i] # hs[j]
            /\ \A i, j \in 1 .. n : i < j => hs[i].created_at >= hs[j].created_at}

\* from('habit_completions').select('*').gte('completion_date', ninetyDaysAgo)
\* .order('completion_date', { ascending: false }): the results the backend may give
selectCompletions(d, ninetyDaysAgo) ==
    LET recent(c) == c.completion_date >= ninetyDaysAgo
        rows == SelectSeq(d.completions, recent)
        n == Len(rows)
    IN  {[i \in 1 .. n |-> rows[p[i]]] : p \in
            {q \in Permutations(1 .. n) :
                \A i, j \in 1 .. n :
                    i < j => rows[q[i]].completion_date >= rows[q[j]].completion_date}}

\* The backend answers request i with an error, or carries it out and answers
Answer(i, ok, data, d) ==
    /\ calls' = [calls EXCEPT ![i].pc = "answered", ![i].ok = ok, ![i].data = data]
    /\ db' = d
    /\ UNCHANGED <<habits, completions, now, query, answer, site, walk, view, app, gate>>

ServeError == \E i \in 1 .. Len(calls) : calls[i].pc = "sent" /\ Answer(i, FALSE, <<>>, db)

ServeInsertCompletion ==
    \E i \in 1 .. Len(calls) :
        /\ calls[i].pc = "sent" /\ calls[i].handler = "toggle" /\ calls[i].completed
        /\ LET row == HabitCompletion(calls[i].habitId, calls[i].date)
           IN  /\ acceptsCompletion(db, row)
               /\ Answer(i, TRUE, <<row>>, insertCompletion(db, row))

ServeDeleteCompletions ==
    \E i \in 1 .. Len(calls) :
        /\ calls[i].pc = "sent" /\ calls[i].handler = "toggle" /\ ~calls[i].completed
        /\ Answer(i, TRUE, <<>>, deleteCompletions(db, calls[i].habitId, calls[i].date))

ServeDeactivateHabit ==
    \E i \in 1 .. Len(calls) :
        /\ calls[i].pc = "sent" /\ calls[i].handler = "delete"
        /\ Answer(i, TRUE, <<>>, deactivateHabit(db, calls[i].habitId))

\* The id the backend gives a new row: one no row has
newId(d) == IF "h1" \in {h.id : h \in d.habits} THEN "h2" ELSE "h1"

\* The backend gives the new row its id and its created_at
ServeInsertHabit ==
    \E i \in 1 .. Len(calls) :
        /\ calls[i].pc = "sent" /\ calls[i].handler = "create"
        /\ Cardinality(db.habits) < MaxHabits
        /\ LET row == Habit(newId(db), calls[i].row[1].frequency_type,
                            calls[i].row[1].custom_days, now, calls[i].row[1].is_active)
           IN  Answer(i, TRUE, <<row>>, insertHabit(db, row))

\* .update(updates).eq('id', habit.id).select().single(): an error unless one row matches
ServeUpdateHabit ==
    \E i \in 1 .. Len(calls) :
        /\ calls[i].pc = "sent" /\ calls[i].handler = "update"
        /\ LET d == updateHabit(db, calls[i].habitId, calls[i].row[1])
               rows == {h \in d.habits : h.id = calls[i].habitId}
           IN  /\ Cardinality(rows) = 1
               /\ Answer(i, TRUE, <<CHOOSE h \in rows : TRUE>>, d)

ServeSelectHabits ==
    \E i \in 1 .. Len(calls) :
        /\ calls[i].pc = "sent" /\ calls[i].handler = "load" /\ calls[i].stage = 1
        /\ \E hs \in selectActiveHabits(db) : Answer(i, TRUE, hs, db)

ServeSelectCompletions ==
    \E i \in 1 .. Len(calls) :
        /\ calls[i].pc = "sent" /\ calls[i].handler = "load" /\ calls[i].stage = 2
        /\ \E cs \in selectCompletions(db, formatDay(subDays(now, LoadWindowDays))) : Answer(i, TRUE, cs, db)


\* What the handlers leave alone
analytics == <<now, query, answer, site, walk, view, gate>>

\* useEffect on [user] with a user: loadHabitsAndCompletions up to its first await
LoadHabitsAndCompletions ==
    /\ Len(calls) < MaxCalls
    /\ app' = [app EXCEPT !.loading = TRUE, !.error = ""]
    /\ calls' = Append(calls, Run("load", "", 0, FALSE, <<>>))
    /\ UNCHANGED <<habits, completions, db, analytics>>

\* A load that sets the habit list as soon as the habits query has answered
LoadHabitsFetched_SetsHabitsEarly ==
    \E i \in 1 .. Len(calls) :
        /\ calls[i].handler = "load" /\ calls[i].stage = 1 /\ calls[i].pc = "answered"
        /\ IF calls[i].ok
           THEN /\ calls' = [calls EXCEPT ![i].pc = "sent", ![i].stage = 2,
                                          ![i].habitsData = calls[i].data, ![i].data = <<>>]
                /\ habits' = calls[i].data
                /\ UNCHANGED app
           ELSE /\ calls' = removeAt(calls, i)
                /\ app' = [app EXCEPT !.error = "error_loading", !.loading = FALSE]
                /\ UNCHANGED habits
        /\ UNCHANGED <<completions, db, analytics>>

\* ... from the answer to the habits query to the second await, or through catch and finally
LoadHabitsFetched ==
    \E i \in 1 .. Len(calls) :
        /\ calls[i].handler = "load" /\ calls[i].stage = 1 /\ calls[i].pc = "answered"
        /\ IF calls[i].ok
           THEN /\ calls' = [calls EXCEPT ![i].pc = "sent", ![i].stage = 2,
                                          ![i].habitsData = calls[i].data, ![i].data = <<>>]
                /\ UNCHANGED app
           ELSE /\ calls' = removeAt(calls, i)
                /\ app' = [app EXCEPT !.error = "error_loading", !.loading = FALSE]
        /\ UNCHANGED <<habits, completions, db, analytics>>

\* ... from the answer to the completions query to the end
LoadCompletionsFetched ==
    \E i \in 1 .. Len(calls) :
        /\ calls[i].handler = "load" /\ calls[i].stage = 2 /\ calls[i].pc = "answered"
        /\ calls' = removeAt(calls, i)
        /\ IF calls[i].ok
           THEN /\ habits' = calls[i].habitsData
                /\ completions' = calls[i].data
                /\ app' = [app EXCEPT !.loading = FALSE]
           ELSE /\ app' = [app EXCEPT !.error = "error_loading", !.loading = FALSE]
                /\ UNCHANGED <<habits, completions>>
        /\ UNCHANGED <<db, analytics>>

\* The cards are on the page when App shows neither the form nor the loading text
CardsShown == ~app.loading /\ ~app.showHabitForm

\* HabitCard: completions.find(c => c.completion_date === today) over the
\* completions App hands the card, completions.filter(c => c.habit_id === habit.id)
isCompleted(habit, cs, today) ==
    \E k \in 1 .. Len(cs) : cs[k].habit_id = habit.id /\ cs[k].completion_date = today

\* The round button of a card that is due today (or "Complete with note"):
\* HabitCard's handleToggleCompletion, then App's up to its await
HandleToggleCompletion ==
    /\ CardsShown
    /\ Len(calls) < MaxCalls
    /\ \E j \in 1 .. Len(habits) :
        LET habit == habits[j]
            today == formatDay(now)
        IN  /\ shouldShowForToday(habit, now)
            /\ calls' = Append(calls, Run("toggle", habit.id, today,
                                          ~isCompleted(habit, completions, today), <<>>))
    /\ UNCHANGED <<habits, completions, db, app, analytics>>

\* A continuation that changes the list whatever the backend answered
ToggleAnswered_IgnoresError ==
    \E i \in 1 .. Len(calls) :
        /\ calls[i].handler = "toggle" /\ calls[i].pc = "answered"
        /\ calls' = removeAt(calls, i)
        /\ completions' =
                IF calls[i].completed
                THEN <<HabitCompletion(calls[i].habitId, calls[i].date)>> \o completions
                ELSE LET kept(c) == ~(c.habit_id = calls[i].habitId
                                      /\ c.completion_date = calls[i].date)
                     IN  SelectSeq(completions, kept)
        /\ app' = IF calls[i].ok THEN app ELSE [app EXCEPT !.error = "error_updating"]
        /\ UNCHANGED <<habits, db, analytics>>

\* ... from the answer to the end
ToggleAnswered ==
    \E i \in 1 .. Len(calls) :
        /\ calls[i].handler = "toggle" /\ calls[i].pc = "answered"
        /\ calls' = removeAt(calls, i)
        /\ IF calls[i].ok
           THEN /\ completions' =
                    IF calls[i].completed
                    THEN calls[i].data \o completions
                    ELSE LET kept(c) == ~(c.habit_id = calls[i].habitId
                                          /\ c.completion_date = calls[i].date)
                         IN  SelectSeq(completions, kept)
                /\ UNCHANGED app
           ELSE /\ app' = [app EXCEPT !.error = "error_updating"]
                /\ UNCHANGED completions
        /\ UNCHANGED <<habits, db, analytics>>

\* The bin of a card, confirm() answered yes: handleDeleteHabit up to its await
HandleDeleteHabit ==
    /\ CardsShown
    /\ Len(calls) < MaxCalls
    /\ \E j \in 1 .. Len(habits) :
        calls' = Append(calls, Run("delete", habits[j].id, 0, FALSE, <<>>))
    /\ UNCHANGED <<habits, completions, db, app, analytics>>

\* ... from the answer to the end
DeleteAnswered ==
    \E i \in 1 .. Len(calls) :
        /\ calls[i].handler = "delete" /\ calls[i].pc = "answered"
        /\ calls' = removeAt(calls, i)
        /\ IF calls[i].ok
           THEN /\ habits' = LET kept(h) == h.id # calls[i].habitId
                             IN  SelectSeq(habits, kept)
                /\ UNCHANGED app
           ELSE /\ app' = [app EXCEPT !.error = "error_deleting"]
                /\ UNCHANGED habits
        /\ UNCHANGED <<completions, db, analytics>>

\* getTodayStats for  new Date() = date.  Math.round((completed / total) * 100)
\* is the quotient rounded half up.
getTodayStats(hs, cs, date) ==
    LET today == formatDay(date)
        todayHabits == {j \in 1 .. Len(hs) : appShouldShowHabitOnDate(hs[j], date)}
        todayCompletions == {k \in 1 .. Len(cs) : cs[k].completion_date = today}
        total == Cardinality(todayHabits)
        completed == Cardinality(todayCompletions)
    IN  [total |-> total, completed |-> completed,
         percentage |-> IF total > 0 THEN (200 * completed + total) \div (2 * total) ELSE 0]


-----------------------------------------------------------------------------
(* HabitForm.tsx and EditHabitModal.tsx *)

FrequencyTypes == {"daily", "alternate", "custom"}

ValidationMessage == "Please select at least one day for custom frequency"

\* A validation that lets every submit through
rejectsSubmit_Never(frequency, customDays) == FALSE

\* frequency === 'custom' && customDays.length === 0
rejectsSubmit(frequency, customDays) == frequency = "custom" /\ customDays = {}

\* custom_days: frequency === 'custom' ? customDays : null
customDaysWritten(frequency, customDays) == IF frequency = "custom" THEN <<customDays>> ELSE NULL

\* habitData of the form (created_at is the backend's)
habitData(frequency, customDays) ==
    Habit("", frequency, customDaysWritten(frequency, customDays), 0, TRUE)

\* A form or modal with a habit's schedule loaded
Loaded(form, habit) ==
    [form EXCEPT !.frequency = habit.frequency_type,
                 !.customDays = IF habit.custom_days = NULL THEN {} ELSE habit.custom_days[1],
                 !.error = ""]

\* handleFrequencyChange of the form and of the modal
handleFrequencyChange(form, value) ==
    [form EXCEPT !.frequency = value,
                 !.customDays = IF value = "custom" THEN @ ELSE {}]

\* handleCustomDayToggle: the checkbox of a day is checked iff the day is in customDays
handleCustomDayToggle(form, day) ==
    [form EXCEPT !.customDays = IF day \in @ THEN @ \ {day} ELSE @ \cup {day}]

\* handleSubmit up to its await or, rejected, to its end: the component's state
handleSubmit(form) ==
    IF rejectsSubmit(form.frequency, form.customDays)
    THEN [form EXCEPT !.loading = FALSE, !.error = ValidationMessage]
    ELSE [form EXCEPT !.loading = TRUE, !.error = ""]

\* "New habit" (behind the modal's dialog while the modal is open):
\* setShowHabitForm(true) mounts the form
ShowHabitForm ==
    /\ ~app.showHabitForm
    /\ app.editingHabit = <<>>
    /\ app' = [app EXCEPT !.showHabitForm = TRUE, !.form = NoForm]
    /\ UNCHANGED <<habits, completions, db, calls, analytics>>

\* "Cancel": setShowHabitForm(false) unmounts the form; a run of its handleSubmit
\* that is awaiting the backend goes on without a component (stage 0)
CancelHabitForm ==
    /\ app.showHabitForm
    /\ app' = [app EXCEPT !.showHabitForm = FALSE, !.form = NoForm]
    /\ calls' = [i \in 1 .. Len(calls) |->
                    IF calls[i].handler = "create" THEN [calls[i] EXCEPT !.stage = 0]
                    ELSE calls[i]]
    /\ UNCHANGED <<habits, completions, db, analytics>>

FormFrequencyChange ==
    /\ app.showHabitForm
    /\ \E value \in FrequencyTypes :
        app' = [app EXCEPT !.form = handleFrequencyChange(@, value)]
    /\ UNCHANGED <<habits, completions, db, calls, analytics>>

\* The panel of the days is offered while the frequency is custom
FormCustomDayToggle ==
    /\ app.showHabitForm
    /\ app.form.frequency = "custom"
    /\ \E day \in CustomDayNames :
        app' = [app EXCEPT !.form = handleCustomDayToggle(@, day)]
    /\ UNCHANGED <<habits, completions, db, calls, analytics>>

\* "Create Habit" (disabled while loading): handleSubmit up to its await, or to
\* its end when the validation throws
FormSubmit ==
    /\ app.showHabitForm
    /\ ~app.form.loading
    /\ Len(calls) < MaxCalls
    /\ app' = [app EXCEPT !.form = handleSubmit(@)]
    /\ calls' = IF rejectsSubmit(app.form.frequency, app.form.customDays)
                THEN calls
                ELSE Append(calls, Run("create", "", 0, FALSE,
                                       <<habitData(app.form.frequency, app.form.customDays)>>))
    /\ UNCHANGED <<habits, completions, db, analytics>>

\* ... from the answer to the end: onHabitCreated is App's handleHabitCreated
HabitCreated ==
    \E i \in 1 .. Len(calls) :
        /\ calls[i].handler = "create" /\ calls[i].pc = "answered"
        /\ calls' = removeAt(calls, i)
        /\ IF calls[i].ok
           THEN /\ habits' = calls[i].data \o habits
                /\ app' = [app EXCEPT !.showHabitForm = FALSE, !.form = NoForm]
           ELSE /\ app' = IF calls[i].stage = 0 THEN app
                          ELSE [app EXCEPT !.form.error = "insertError", !.form.loading = FALSE]
                /\ UNCHANGED habits
        /\ UNCHANGED <<completions, db, analytics>>

\* The modal is on the page when App does not show the form
ModalShown == ~app.showHabitForm /\ app.editingHabit # <<>>

\* The modal is given a habit of the list and opened: its effect loads the habit
ModalOpen ==
    /\ ~app.showHabitForm
    /\ app.editingHabit = <<>>
    /\ \E j \in 1 .. Len(habits) :
        app' = [app EXCEPT !.editingHabit = <<habits[j]>>, !.modal = Loaded(NoForm, habits[j])]
    /\ UNCHANGED <<habits, completions, db, calls, analytics>>

ModalFrequencyChange ==
    /\ ModalShown
    /\ \E value \in FrequencyTypes :
        app' = [app EXCEPT !.modal = handleFrequencyChange(@, value)]
    /\ UNCHANGED <<habits, completions, db, calls, analytics>>

ModalCustomDayToggle ==
    /\ ModalShown
    /\ app.modal.frequency = "custom"
    /\ \E day \in CustomDayNames :
        app' = [app EXCEPT !.modal = handleCustomDayToggle(@, day)]
    /\ UNCHANGED <<habits, completions, db, calls, analytics>>

\* "Save" (disabled while loading): the modal's handleSubmit
ModalSubmit ==
    /\ ModalShown
    /\ ~app.modal.loading
    /\ Len(calls) < MaxCalls
    /\ app' = [app EXCEPT !.modal = handleSubmit(@)]
    /\ calls' = IF rejectsSubmit(app.modal.frequency, app.modal.customDays)
                THEN calls
                ELSE Append(calls, Run("update", app.editingHabit[1].id, 0, FALSE,
                                       <<habitData(app.modal.frequency, app.modal.customDays)>>))
    /\ UNCHANGED <<habits, completions, db, analytics>>

\* ... from the answer to the end: onHabitUpdated is App's handleHabitUpdated,
\* onOpenChange(false) closes the modal
HabitUpdated ==
    \E i \in 1 .. Len(calls) :
        /\ calls[i].handler = "update" /\ calls[i].pc = "answered"
        /\ calls' = removeAt(calls, i)
        /\ IF calls[i].ok
           THEN /\ habits' = [j \in 1 .. Len(habits) |->
                                IF habits[j].id = calls[i].data[1].id THEN calls[i].data[1]
                                ELSE habits[j]]
                /\ app' = [app EXCEPT !.editingHabit = <<>>, !.modal.loading = FALSE]
           ELSE /\ app' = [app EXCEPT !.modal.error = "updateError", !.modal.loading = FALSE]
                /\ UNCHANGED habits
        /\ UNCHANGED <<completions, db, analytics>>


-----------------------------------------------------------------------------
(* App at work: a signed-in user, from the mount on.  The user creates habits *)
(* with the schedule the form opens with; the form's other schedules are     *)
(* followed in SpecForm.                                                     *)

\* App has mounted with a user: empty lists, and the effect has started the load
InitApp ==
    /\ habits = <<>>
    /\ completions = <<>>
    /\ now = At(MaxDay, 0)
    /\ query = NoQuery
    /\ answer = FALSE
    /\ site = "none"
    /\ walk = IdleWalk
    /\ view = NoView
    /\ db = NoDb
    /\ calls = <<Run("load", "", 0, FALSE, <<>>)>>
    /\ app = NoApp
    /\ gate = NoGate

NextApp ==
    \/ LoadHabitsAndCompletions
    \/ LoadHabitsFetched
    \/ LoadCompletionsFetched
    \/ HandleToggleCompletion
    \/ ToggleAnswered
    \/ HandleDeleteHabit
    \/ DeleteAnswered
    \/ ShowHabitForm
    \/ CancelHabitForm
    \/ FormSubmit
    \/ HabitCreated
    \/ ServeError
    \/ ServeInsertCompletion
    \/ ServeDeleteCompletions
    \/ ServeDeactivateHabit
    \/ ServeInsertHabit
    \/ ServeSelectHabits
    \/ ServeSelectCompletions

SpecApp == InitApp /\ [][NextApp]_vars

-----------------------------------------------------------------------------
(* The form and the modal at work, each with the props App would give it, *)
(* after a load that found no habit                                       *)

InitForm ==
    /\ habits = <<>>
    /\ completions = <<>>
    /\ now = At(MaxDay, 0)
    /\ query = NoQuery
    /\ answer = FALSE
    /\ site = "none"
    /\ walk = IdleWalk
    /\ view = NoView
    /\ db = NoDb
    /\ calls = <<>>
    /\ app = [NoApp EXCEPT !.loading = FALSE]
    /\ gate = NoGate

NextForm ==
    \/ ShowHabitForm
    \/ CancelHabitForm
    \/ FormFrequencyChange
    \/ FormCustomDayToggle
    \/ FormSubmit
    \/ HabitCreated
    \/ ModalOpen
    \/ ModalFrequencyChange
    \/ ModalCustomDayToggle
    \/ ModalSubmit
    \/ HabitUpdated
    \/ ServeError
    \/ ServeInsertHabit
    \/ ServeUpdateHabit

SpecForm == InitForm /\ [][NextForm]_vars


-----------------------------------------------------------------------------
(* Claims under SpecApp *)

\* C21: after any interleaving of mark and unmark requests handled by
\* handleToggleCompletion, two marks of the same habit and date issued before
\* either has finished included, the completion list in memory holds at most
\* one completion per pair of habit id and completion date.
C21_OneCompletionPerHabitAndDate ==
    \A k, l \in 1 .. Len(completions) :
        (completions[k].habit_id = completions[l].habit_id
         /\ completions[k].completion_date = completions[l].completion_date) => k = l


\* The entries of the completion list in memory that are of today and belong to
\* a habit of the habit list in memory that is due today
TodayCompletionsOfDueHabits ==
    {k \in 1 .. Len(completions) :
        /\ completions[k].completion_date = formatDay(now)
        /\ \E j \in 1 .. Len(habits) :
            /\ habits[j].id = completions[k].habit_id
            /\ appShouldShowHabitOnDate(habits[j], now)}

\* C22: after any sequence of create-habit, mark, unmark and delete-habit
\* operations the header's today statistic counts only completions that belong
\* to a habit of the current list that is due today, so completed <= total and
\* the percentage is at most 100; a completion left by a deleted habit is ignored.
C22_TodayStatsCountListedDueHabits ==
    LET stats == getTodayStats(habits, completions, now)
    IN  /\ stats.completed = Cardinality(TodayCompletionsOfDueHabits)
        /\ stats.completed <= stats.total
        /\ stats.percentage <= 100


-----------------------------------------------------------------------------
(* Claims under SpecForm *)

\* custom goes with a non-empty array of days, any other frequency with null
WellFormedSchedule(h) ==
    IF h.frequency_type = "custom"
    THEN h.custom_days # NULL /\ h.custom_days[1] # {}
    ELSE h.custom_days = NULL

\* The habit data of the writes that are awaiting the backend
WritesInFlight ==
    {calls[i].row[1] : i \in {k \in 1 .. Len(calls) : calls[k].handler \in {"create", "update"}}}

\* C23: every habit written by the create form or the edit modal has a non-empty
\* custom_days if its frequency_type is custom and custom_days null otherwise; a
\* submit with custom frequency and no selected day performs no write and sets
\* an error message.
C23_WritesAreWellFormed ==
    /\ [](\A h \in db.habits \cup WritesInFlight : WellFormedSchedule(h))
    /\ [][/\ (FormSubmit /\ app.form.frequency = "custom" /\ app.form.customDays = {})
                => (calls' = calls /\ db' = db /\ app'.form.error # "")
          /\ (ModalSubmit /\ app.modal.frequency = "custom" /\ app.modal.customDays = {})
                => (calls' = calls /\ db' = db /\ app'.modal.error # "")]_vars

\* The form has refused a custom habit without days, and the modal has changed
\* the habit in the table to custom with a day
C23_Witness ==
    /\ app.showHabitForm
    /\ app.form.frequency = "custom" /\ app.form.customDays = {}
    /\ app.form.error = ValidationMessage
    /\ \E h \in db.habits : h.frequency_type = "custom" /\ h.custom_days # NULL
    /\ \E j \in 1 .. Len(habits) : habits[j].frequency_type = "custom"


-----------------------------------------------------------------------------
(* Further claims under SpecApp *)

\* Run i of a handler is answered by the backend in this step
Served(i, handler) ==
    /\ calls[i].handler = handler /\ calls[i].pc = "sent"
    /\ Len(calls') = Len(calls)
    /\ calls'[i].pc = "answered"

\* Run i of a handler, answered, runs to its end in this step
Finished(i, handler) ==
    /\ calls[i].handler = handler /\ calls[i].pc = "answered"
    /\ calls' = removeAt(calls, i)

\* Row h2 is row h, but for is_active
SameHabit(h, h2) ==
    /\ h2.id = h.id
    /\ h2.frequency_type = h.frequency_type
    /\ h2.custom_days = h.custom_days
    /\ h2.created_at = h.created_at

\* C24: deleting a habit never removes the habit's row: it only sets is_active
\* to false and drops the habit from the habit list in memory, leaves every
\* completion (row and entry in memory) as it is, and on a backend error leaves
\* the habit list in memory as it is.
C24_DeleteIsSoft ==
    [][\A i \in 1 .. Len(calls) :
        /\ Served(i, "delete") =>
            /\ \A h \in db.habits : \E h2 \in db'.habits :
                /\ SameHabit(h, h2)
                /\ h2.is_active = IF calls'[i].ok /\ h.id = calls[i].habitId
                                  THEN FALSE ELSE h.is_active
            /\ Cardinality(db'.habits) = Cardinality(db.habits)
            /\ db'.completions = db.completions
            /\ habits' = habits /\ completions' = completions
        /\ Finished(i, "delete") =>
            /\ db' = db
            /\ completions' = completions
            /\ IF calls[i].ok
               THEN /\ \A j \in 1 .. Len(habits') : habits'[j].id # calls[i].habitId
                    /\ LET others(h) == h.id # calls[i].habitId
                       IN  habits' = SelectSeq(habits, others)
               ELSE habits' = habits]_vars

\* A habit has been deleted: its row is inactive and it is not in the list, its
\* completion is in the table and in memory
C24_Witness ==
    /\ calls = <<>>
    /\ habits = <<>>
    /\ \E h \in db.habits :
        /\ ~h.is_active
        /\ \E k \in 1 .. Len(db.completions) : db.completions[k].habit_id = h.id
        /\ \E k \in 1 .. Len(completions) : completions[k].habit_id = h.id

\* C28: loadHabitsAndCompletions replaces the habit list and the completion
\* list in memory together or not at all: if either fetch fails both lists keep
\* their values and an error message is set, and the loading flag is false after
\* every outcome.
C28_LoadReplacesBothOrNeither ==
    [][\A i \in 1 .. Len(calls) :
        /\ (Served(i, "load") \/ (calls[i].handler = "load" /\ Len(calls') = Len(calls)))
            => (habits' = habits /\ completions' = completions)
        /\ Finished(i, "load") =>
            /\ app'.loading = FALSE
            /\ IF calls[i].ok
               THEN habits' = calls[i].habitsData /\ completions' = calls[i].data
               ELSE habits' = habits /\ completions' = completions
                    /\ app'.error = "error_loading"]_vars

\* A load has failed while the table no longer holds an active habit: the lists
\* in memory are as they were, the error is set and loading is false
C28_Witness ==
    /\ calls = <<>>
    /\ app.error = "error_loading"
    /\ ~app.loading
    /\ Len(habits) = 1
    /\ Len(completions) = 1
    /\ \A h \in db.habits : ~h.is_active

\* C29: if the insert or delete issued by handleToggleCompletion fails, the
\* completion list in memory is left as it was and an error message is set; the
\* list changes only after the backend call has succeeded.
C29_ToggleChangesListOnlyOnSuccess ==
    [][/\ \A i \in 1 .. Len(calls) :
            (Finished(i, "toggle") /\ ~calls[i].ok)
                => (completions' = completions /\ app'.error = "error_updating")
       /\ completions' # completions =>
            \E i \in 1 .. Len(calls) :
                /\ calls[i].ok
                /\ Finished(i, "toggle") \/ Finished(i, "load")]_vars

\* An unmark has failed: the completion is still in the list and the error is set
C29_Witness ==
    /\ calls = <<>>
    /\ app.error = "error_updating"
    /\ Len(completions) = 1
    /\ Len(db.completions) = 1


-----------------------------------------------------------------------------
(* The three streak computations on the same input *)

RECURSIVE sharedCalculateCurrentStreakRun(_, _, _)
\* SharedHabitsPage calculateCurrentStreak: n iterations of the loop from walk w,
\* or as many as it makes before it returns
sharedCalculateCurrentStreakRun(habit, w, n) ==
    IF n = 0 \/ w.pc = "done" THEN w
    ELSE IF n = 1 THEN sharedCalculateCurrentStreakIter(habit, w)
    ELSE sharedCalculateCurrentStreakRun(habit,
            sharedCalculateCurrentStreakRun(habit, w, n \div 2), n - (n \div 2))

\* SharedHabitsPage calculateCurrentStreak(habit, completions), followed for MaxWalk iterations
sharedCalculateCurrentStreak(habit, cs, today) ==
    sharedCalculateCurrentStreakRun(habit, sharedCalculateCurrentStreakEnter(habit, cs, today),
                                    MaxWalk)

RECURSIVE calculateStreakRun(_, _, _)
\* HabitCard calculateStreak: n iterations of the loop from walk w, or as many as
\* it makes before it returns
calculateStreakRun(habit, w, n) ==
    IF n = 0 \/ w.pc = "done" THEN w
    ELSE IF n = 1 THEN calculateStreakIter(habit, w)
    ELSE calculateStreakRun(habit, calculateStreakRun(habit, w, n \div 2), n - (n \div 2))

\* HabitCard calculateStreak(completions, habit), followed for MaxWalk iterations
calculateStreak(cs, habit, today) ==
    calculateStreakRun(habit, calculateStreakEnter(cs, habit, today), MaxWalk)

\* C25: for the same habit, the same completions of that habit and the same
\* reference date, the streak of the habit card, of the dashboard and of the
\* shared page are equal.
C25_StreaksAgree ==
    (site \in {"dashboard", "shared", "card"} /\ walk.pc = "done") =>
        LET dashboard == calculateCurrentStreak(TheHabit, completions, now)
            shared == sharedCalculateCurrentStreak(TheHabit, completions, now)
            card == calculateStreak(habitCompletionsOf(TheHabit, completions), TheHabit, now)
        IN  /\ dashboard.pc = "done" /\ shared.pc = "done" /\ card.pc = "done"
            /\ dashboard.streak = walk.streak
            /\ shared.streak = walk.streak
            /\ card.streak = walk.streak


-----------------------------------------------------------------------------
(* Further claims under SpecAgg *)

\* The number of days of a preset period of the ranking
PeriodDays(period) == CASE period = "7" -> 7 [] period = "30" -> 30 [] OTHER -> 90

\* The set of the dates a loop visited
VisitedSet(counts) == {counts.visited[i] : i \in 1 .. Len(counts.visited)}

\* C26: for the same period length N (7 or 30 days) and the same today, the
\* dashboard's N-day completion statistics and the ranking for period N
\* aggregate over the same set of calendar dates, so for a single active habit
\* planned and completed agree between the two.
C26_DashboardAndRankingAgree ==
    (/\ view.component = "abandoned" /\ view.ran
     /\ view.period \in {"7", "30"}
     /\ Len(view.scans) = 1) =>
        LET ranking == view.scans[1].counts
            dashboard == getCompletionStats(activeHabitsOf(habits), completions,
                                            PeriodDays(view.period), now)
        IN  /\ VisitedSet(ranking) = VisitedSet(dashboard)
            /\ ranking.planned = dashboard.planned
            /\ ranking.completed = dashboard.completed


\* 0 <= completed <= planned
CountsInRange(counts) == 0 <= counts.completed /\ counts.completed <= counts.planned

\* A rate that is a number from 0 to 100
RateInRange(rate) == rate.den > 0 /\ 0 <= rate.num /\ rate.num <= 100 * rate.den

\* C27: every window aggregate of getCompletionStats, getWeekStats,
\* getWeekStatsForHabit and the per-habit loop of the ranking has
\* 0 <= completed <= planned, and every rate derived from it is from 0 to 100,
\* also when the completion list has several records of one habit and date or
\* records of habits that are not in the habit list.
C27_AggregatesInRange ==
    /\ view.component = "completionStats" =>
        CountsInRange(view.counts) /\ RateInRange(view.rate)
    /\ (view.component = "dashboard" /\ ~view.loading) =>
        LET stats == view.stats[1]
        IN  /\ 0 <= stats.weekCompleted /\ stats.weekCompleted <= stats.weekPlanned
            /\ 0 <= stats.monthCompleted /\ stats.monthCompleted <= stats.monthPlanned
            /\ RateInRange(stats.weekCompletionRate)
            /\ RateInRange(stats.monthCompletionRate)
    /\ (view.component = "abandoned" /\ view.ran) =>
        /\ \A k \in 1 .. Len(view.scans) : CountsInRange(view.scans[k].counts)
        /\ \A k \in 1 .. Len(view.abandonedHabits) :
            /\ RateInRange(view.abandonedHabits[k].failureRate)
            /\ 0 <= view.abandonedHabits[k].missedDays
            /\ view.abandonedHabits[k].missedDays <= view.abandonedHabits[k].plannedDays
    /\ view.component = "chart" =>
        /\ CountsInRange(view.weekStats) /\ RateInRange(view.total)
        /\ \A k \in 1 .. Len(view.perHabit) :
            CountsInRange(view.perHabit[k].habitStats) /\ RateInRange(view.perHabit[k].value)

\* The completion list has two records of h1 for today and one of a habit that
\* is not in the habit list, and the week of the chart has counted h1 today
C27_Witness ==
    /\ view.component = "chart"
    /\ Len(habits) = 1
    /\ Cardinality({i \in 1 .. Len(completions) :
            completions[i].habit_id = "h1" /\ completions[i].completion_date = formatDay(now)}) = 2
    /\ \E i \in 1 .. Len(completions) : completions[i].habit_id = "h2"
    /\ formatDay(view.weekEnd) = formatDay(now)
    /\ view.weekStats.completed >= 1
    /\ view.weekStats.completed = view.weekStats.planned


-----------------------------------------------------------------------------
(* HabitsGate.tsx: load(), its callers and the session *)

MaxRuns == 3           \* runs of load() that may be awaiting at once

\* What the gate leaves alone
ungated == <<habits, completions, now, query, answer, site, walk, view, db, calls, app>>

\* A run of load() awaiting getCurrentSession(); latest marks the run started last
GateRun == [pc |-> "getSession", latest |-> TRUE]

\* load() up to its first await: setState('authLoading')
loadStarted(g) ==
    [g EXCEPT !.state = "authLoading",
              !.runs = Append([i \in 1 .. Len(@) |-> [@[i] EXCEPT !.latest = FALSE]], GateRun),
              !.outcome = "pending"]

\* load() from the answer of getCurrentSession() to the second await or the return
loadChecked(g, i, found) ==
    IF found
    THEN [g EXCEPT !.state = "loading",
                   !.runs = [@ EXCEPT ![i].pc = "ping"],
                   !.checked = "found"]
    ELSE [g EXCEPT !.state = "noSession",
                   !.runs = removeAt(@, i),
                   !.outcome = IF g.runs[i].latest THEN "noSession" ELSE @,
                   !.checked = "missing"]

\* load() from the answer of pingHabits to the end
loadPinged(g, i, ok) ==
    IF ok
    THEN [g EXCEPT !.state = "ready",
                   !.runs = removeAt(@, i),
                   !.outcome = IF g.runs[i].latest THEN "ready" ELSE @]
    ELSE [g EXCEPT !.state = "error", !.msg = "pingError",
                   !.runs = removeAt(@, i),
                   !.outcome = IF g.runs[i].latest THEN "error" ELSE @]

\* The tab becomes visible, the auth state changes without the session coming
\* or going (a token refresh), or "Try again" is pressed: load()
GateLoad ==
    /\ Len(gate.runs) < MaxRuns
    /\ gate' = loadStarted(gate)
    /\ UNCHANGED ungated

\* The user signs in or out: the session comes or goes, and onAuthStateChange
\* calls load()
GateSessionChange ==
    /\ Len(gate.runs) < MaxRuns
    /\ gate' = loadStarted([gate EXCEPT !.session = ~@])
    /\ UNCHANGED ungated

\* getCurrentSession() answers a run: the session there is, or null when
\* getSession reports an error
GateSessionChecked ==
    /\ \E i \in 1 .. Len(gate.runs) :
        /\ gate.runs[i].pc = "getSession"
        /\ \E found \in {gate.session, FALSE} : gate' = loadChecked(gate, i, found)
    /\ UNCHANGED ungated

\* pingHabits answers a run, or throws
GatePinged ==
    /\ \E i \in 1 .. Len(gate.runs) :
        /\ gate.runs[i].pc = "ping"
        /\ \E ok \in BOOLEAN : gate' = loadPinged(gate, i, ok)
    /\ UNCHANGED ungated

\* The gate has mounted: the effect has called load()
InitGate ==
    /\ habits = <<>>
    /\ completions = <<>>
    /\ now = At(MaxDay, 0)
    /\ query = NoQuery
    /\ answer = FALSE
    /\ site = "none"
    /\ walk = IdleWalk
    /\ view = NoView
    /\ db = NoDb
    /\ calls = <<>>
    /\ app = NoApp
    /\ \E session \in BOOLEAN : gate = loadStarted([NoGate EXCEPT !.session = session])

NextGate ==
    \/ GateLoad
    \/ GateSessionChange
    \/ GateSessionChecked
    \/ GatePinged

SpecGate == InitGate /\ [][NextGate]_vars

-----------------------------------------------------------------------------
(* Claims under SpecGate *)

\* C30: when several runs of load() overlap, once all of them have finished the
\* gate's state is the outcome of the most recently started run; in particular
\* the gate never rests in 'ready' when the most recent session check found no
\* session.
C30_LatestRunDecides ==
    gate.runs = <<>> =>
        /\ gate.state = gate.outcome
        /\ gate.checked = "missing" => gate.state # "ready"

=============================================================================
